---- MODULE Spec2Model ----
(***************************************************************************)
(* Verification model of the image gallery's concurrent batch I/O engine   *)
(* and of the server-side pipelines it drives.                             *)
(*                                                                         *)
(*   SpecPool    runConcurrent, the bounded worker pool, with an opaque    *)
(*               task that may fulfil or reject                            *)
(*               (src/src/client/electron/utils/concurrency.ts 8-28)       *)
(*   SpecExport  handleExportImages: runConcurrent over downloadImage,     *)
(*               with the destination directory as shared state            *)
(*               (src/src/client/electron/utils/concurrency.ts 38-136)     *)
(*   SpecServer  the image routes: upload, crop, EXIF edit and delete      *)
(*               requests interleaved at their awaits, over the storage    *)
(*               directory and the images table                            *)
(*               (src/unnamed/part_001 and                                 *)
(*                src/src/server/api/src/routes/images.routes.ts)          *)
(*   SpecBatch   handleBatchUpload over one folder of readable images and  *)
(*               a server that answers: the upload tasks of runConcurrent  *)
(*               interleaved at their awaits                               *)
(*   SpecDiscovery  handleBatchUpload over a varied config: folders that   *)
(*               are missing or unreadable, extension lists, files that    *)
(*               are refused before any request                            *)
(*               (src/src/client/electron/features/upload.ts 9-176)        *)
(*   SpecErrors  the error responses of the server: exceptions that reach  *)
(*               the catch block of a route or errorHandler                *)
(*               (src/src/server/api/src/middleware/error.middleware.ts)   *)
(*   SpecFilter  the discovery loop over extension lists and file names    *)
(*               that differ in letter case                                *)
(*   SpecEdits   uploads, crops and EXIF edits whose arguments differ      *)
(*               (two rectangles, two tag values), without injected faults *)
(*   SpecCrops   crop requests on their own, each step able to fail        *)
(*   SpecRerun   handleBatchUpload posting to the upload route, twice      *)
(*   SpecHang    one batch upload in which one request is never answered,  *)
(*               under weak fairness                                       *)
(*   SpecClient  one batch upload or one batch export with every way an    *)
(*               item can fail, under weak fairness: for what eventually   *)
(*               happens                                                   *)
(***************************************************************************)
EXTENDS Integers, Sequences, FiniteSets, TLC

\* ------------------------------------------------------------ bounds ----
\* longest item list handed to runConcurrent
MaxItems == 6
\* largest concurrency argument tried (the orchestrators pass 5)
MaxLimit == 5
\* most images in one export batch
MaxImages == 2
\* requests the server receives in one run
MaxRequests == 2
\* last value of the millisecond clock (Date.now() starts at 0)
MaxClock == 1
\* deepest chain of crops (1: only images that are not crops are cropped)
MaxCropDepth == 1

\* most files one plain batch upload discovers
MaxFiles == 6
\* most entries in a batch upload config
MaxFolders == 2
\* most files in a folder, and most files discovered over a varied config
MaxFound == 2
\* exceptions whose responses are compared
MaxThrown == 2

\* --------------------------------------------------- program constants ---
\* const CONCURRENCY_LIMIT = 5 in handleBatchUpload and handleExportImages
CONCURRENCY_LIMIT == 5

VARIABLES
  \* ---- runConcurrent ----
  items,      \* the items argument: a sequence of item values
  limit,      \* the concurrency argument
  started,    \* runConcurrent has been called
  queue,      \* const queue = [...items], as indices into items
  workers,    \* the worker promises: [pc, item, threw]
  poolState,  \* the promise runConcurrent returned
  taskCalls,  \* how often task was invoked with each item (by index)
  \* ---- handleExportImages ----
  images,     \* the images argument: each image's originalName
  disk,       \* targetFolder: file name -> [data], data 0 = no complete content
  dl,         \* per worker, the downloadImage call in flight: [phase, img, path]
  completed,  \* let completed = 0
  exportLog,  \* what was sent on the "log" channel, in order
  \* ---- the server ----
  variant,    \* which images.routes.ts is deployed: "exif" (part_001) or "soft"
  catalog,    \* the images table: id -> row
  fs,         \* the storage tree: path -> [bytes, kind, by]
  reqs,       \* the request handlers in flight, one per slot
  now,        \* Date.now()
  nextReq,    \* requests received so far, plus one
  nextId,     \* rows created so far, plus one
  thrown,     \* exceptions raised in handlers, each with the body it was answered with
  \* ---- handleBatchUpload ----
  bphase,       \* where handleBatchUpload is: "discover", "upload", "done", "empty"
  entries,      \* how many config entries the loop has been through
  allFiles,     \* const allFiles: the discovered files, each [ext, size]
  successCount, \* let successCount = 0
  failCount,    \* let failCount = 0
  totalSize,    \* let totalSize = 0
  processed,    \* let processed = 0
  up,           \* per worker, the uploadFile call in flight: [phase, file, req]
  posted,       \* per file, what its fetch came to: "", "ok", "notok", "threw", "unsent"
  batchLog      \* what was sent on the "log" channel, by kind of event

poolVars == <<items, limit, started, queue, workers, poolState, taskCalls>>
exportVars == <<images, disk, dl, completed, exportLog>>
serverVars == <<variant, catalog, fs, reqs, now, nextReq, nextId, thrown>>
batchVars == <<bphase, entries, allFiles, successCount, failCount, totalSize,
               processed, up, posted, batchLog>>
vars == <<items, limit, started, queue, workers, poolState, taskCalls,
          images, disk, dl, completed, exportLog,
          variant, catalog, fs, reqs, now, nextReq, nextId, thrown,
          bphase, entries, allFiles, successCount, failCount, totalSize,
          processed, up, posted, batchLog>>

\* ------------------------------------------------------- runConcurrent ---
\* Item values: 0 stands for a falsy JavaScript value (0, "", null), 1 for a
\* truthy one (an object such as an UploadFile or an ImageFile).
ItemVals == {0, 1}

\* JavaScript truthiness, as tested by `if (item)`
Truthy(v) == v # 0

Min(a, b) == IF a < b THEN a ELSE b

\* a pool that starts one worker per item, whatever the limit
WorkerCountPerItem(n, lim) == n

\* a pool that starts a single worker, whatever the limit
WorkerCountSingle(n, lim) == Min(1, n)

\* the for loop's bound: Math.min(concurrency, items.length)
WorkerCount(n, lim) == Min(lim, n)

\* `while (queue.length > 0) { item = queue.shift(); if (item) ... }` up to the
\* first item that passes `if (item)`: the queue with its falsy head dropped.
RECURSIVE SkipFalsy(_, _)
SkipFalsy(its, q) ==
  IF q = <<>> \/ Truthy(its[Head(q)]) THEN q ELSE SkipFalsy(its, Tail(q))

\* One run of a worker's loop from the while test to its next suspension:
\* either it awaits task(item) or the queue is drained and it returns.
WorkerAfterLoop(its, q) ==
  LET r == SkipFalsy(its, q) IN
  IF r = <<>> THEN [pc |-> "done", item |-> 0]
  ELSE [pc |-> "await", item |-> Head(r)]

QueueAfterLoop(its, q) ==
  LET r == SkipFalsy(its, q) IN IF r = <<>> THEN <<>> ELSE Tail(r)

CallsAfterLoop(its, q, calls) ==
  LET r == SkipFalsy(its, q) IN
  IF r = <<>> THEN calls ELSE [calls EXCEPT ![Head(r)] = @ + 1]

\* The for loop of runConcurrent: each async worker body runs synchronously to
\* its first await, so the k-th worker claims before the (k+1)-th is created.
RECURSIVE Spawn(_, _, _, _, _)
Spawn(k, its, q, ws, calls) ==
  IF k = 0 THEN [queue |-> q, workers |-> ws, calls |-> calls]
  ELSE Spawn(k - 1, its, QueueAfterLoop(its, q),
             Append(ws, WorkerAfterLoop(its, q)),
             CallsAfterLoop(its, q, calls))

\* the number of tasks entered and not yet settled
Active == Cardinality({w \in DOMAIN workers : workers[w].pc = "await"})

PoolInit ==
  /\ \E n \in 0..MaxItems : items \in [1..n -> ItemVals]
  /\ limit \in 1..MaxLimit
  /\ started = FALSE
  /\ queue = <<>>
  /\ workers = <<>>
  /\ poolState = "pending"
  /\ taskCalls = [i \in DOMAIN items |-> 0]

\* runConcurrent(items, concurrency, task): lines 13-26, up to `await Promise.all`
RunConcurrent ==
  /\ ~started
  /\ LET s == Spawn(WorkerCount(Len(items), limit), items,
                    [i \in 1..Len(items) |-> i], <<>>, taskCalls) IN
       /\ queue' = s.queue
       /\ workers' = s.workers
       /\ taskCalls' = s.calls
  /\ started' = TRUE
  /\ UNCHANGED <<items, limit, poolState>>

\* the promise task(item) returned settles: fulfilled, or rejected (task threw)
TaskSettle(w, threw) ==
  /\ w \in DOMAIN workers
  /\ workers[w].pc = "await"
  /\ workers' = [workers EXCEPT ![w] = [pc |-> IF threw THEN "throw" ELSE "resume",
                                        item |-> @.item]]
  /\ UNCHANGED <<items, limit, started, queue, poolState, taskCalls>>

\* the worker resumes after `await task(item)` fulfilled: back to the while test
WorkerResume(w) ==
  /\ w \in DOMAIN workers
  /\ workers[w].pc = "resume"
  /\ workers' = [workers EXCEPT ![w] = WorkerAfterLoop(items, queue)]
  /\ queue' = QueueAfterLoop(items, queue)
  /\ taskCalls' = CallsAfterLoop(items, queue, taskCalls)
  /\ UNCHANGED <<items, limit, started, poolState>>

\* `await task(item)` rejected: nothing in the worker catches, its promise rejects
WorkerThrow(w) ==
  /\ w \in DOMAIN workers
  /\ workers[w].pc = "throw"
  /\ workers' = [workers EXCEPT ![w] = [pc |-> "failed", item |-> @.item]]
  /\ UNCHANGED <<items, limit, started, queue, poolState, taskCalls>>

\* await Promise.all(workers): fulfils once every worker promise has fulfilled
PoolResolve ==
  /\ started
  /\ poolState = "pending"
  /\ \A w \in DOMAIN workers : workers[w].pc = "done"
  /\ poolState' = "resolved"
  /\ UNCHANGED <<items, limit, started, queue, workers, taskCalls>>

\* await Promise.all(workers): rejects as soon as one worker promise rejects
PoolReject ==
  /\ started
  /\ poolState = "pending"
  /\ \E w \in DOMAIN workers : workers[w].pc = "failed"
  /\ poolState' = "rejected"
  /\ UNCHANGED <<items, limit, started, queue, workers, taskCalls>>

\* ---- the pool on its own, with an opaque task ----
PoolStart == RunConcurrent /\ UNCHANGED <<exportVars, serverVars, batchVars>>
PoolTaskSettle(w, threw) == TaskSettle(w, threw) /\ UNCHANGED <<exportVars, serverVars, batchVars>>
PoolWorkerResume(w) == WorkerResume(w) /\ UNCHANGED <<exportVars, serverVars, batchVars>>
PoolWorkerThrow(w) == WorkerThrow(w) /\ UNCHANGED <<exportVars, serverVars, batchVars>>
PoolResolved == PoolResolve /\ UNCHANGED <<exportVars, serverVars, batchVars>>
PoolRejected == PoolReject /\ UNCHANGED <<exportVars, serverVars, batchVars>>

PoolNext ==
  \/ PoolStart
  \/ \E w \in 1..MaxLimit, threw \in BOOLEAN : PoolTaskSettle(w, threw)
  \/ \E w \in 1..MaxLimit : PoolWorkerResume(w)
  \/ \E w \in 1..MaxLimit : PoolWorkerThrow(w)
  \/ PoolResolved
  \/ PoolRejected

\* -------------------------------------------------- handleExportImages ---
\* Characters of an originalName: a safe one, and two that differ only before
\* sanitizing (" " is replaced by "_").
NameChars == {"p", " ", "_"}

\* image.originalName as the characters before its extension; <<>> stands for
\* an absent originalName. Every name carries the extension EXT.
OriginalNames == {<<>>} \cup {<<c>> : c \in NameChars}
EXT == ".jpg"

\* filename.replace(/[^a-zA-Z0-9._-]/g, "_")
SanitizeChar(c) == IF c \in {"p", "_", "d", "1", "2", "3"} THEN c ELSE "_"
Sanitize(stem) == [k \in DOMAIN stem |-> SanitizeChar(stem[k])]

\* image.originalName || `default${path.extname(image.filename)}`, sanitized;
\* path.parse(filename).name of the result (the extension is EXT)
NameWithoutExt(orig) == Sanitize(IF orig = <<>> THEN <<"d">> ELSE orig)

\* the decimal digits of a counter, 1..3 (a batch holds fewer files than that)
CounterText(n) == <<"1", "2", "3">>[n]

\* path.join(targetFolder, filename) for counter 0, and
\* path.join(targetFolder, `${nameWithoutExt}_${counter}${ext}`) after that
FileName(stem, counter) ==
  IF counter = 0 THEN stem \o <<EXT>>
  ELSE stem \o <<"_", CounterText(counter)>> \o <<EXT>>

\* `while (fs.existsSync(filePath)) { ...; counter++ }`
RECURSIVE FreeName(_, _, _)
FreeName(stem, counter, d) ==
  IF FileName(stem, counter) \notin DOMAIN d THEN FileName(stem, counter)
  ELSE FreeName(stem, counter + 1, d)

\* lines 51-74 and 76-77, 101-102: the synchronous start of downloadImage,
\* up to the request being sent
BeginDownload(i, d) ==
  [phase |-> "requested", img |-> i, path |-> FreeName(NameWithoutExt(images[i]), 0, d)]

NoDownload == [phase |-> "none", img |-> 0, path |-> <<>>]

\* the downloads started by the workers that `ws` shows awaiting a new task
DownloadsBegun(ws, old, d) ==
  [w \in 1..CONCURRENCY_LIMIT |->
     IF w \in DOMAIN ws /\ ws[w].pc = "await" /\ old[w].phase = "none"
     THEN BeginDownload(ws[w].item, d) ELSE old[w]]

ExportAtRest ==
  /\ images = <<>>
  /\ disk = <<>>
  /\ dl = [w \in 1..CONCURRENCY_LIMIT |-> NoDownload]
  /\ completed = 0
  /\ exportLog = <<>>

\* the sanitized plain names of a batch, some of which may exist beforehand
PlainNames(imgs) == {FileName(NameWithoutExt(imgs[i]), 0) : i \in DOMAIN imgs}

ExportInit ==
  /\ \E n \in 1..MaxImages : images \in [1..n -> OriginalNames]
  /\ \E pre \in SUBSET PlainNames(images) : disk = [f \in pre |-> [data |-> 0]]
  /\ dl = [w \in 1..CONCURRENCY_LIMIT |-> NoDownload]
  /\ completed = 0
  /\ exportLog = <<>>
  /\ items = [i \in DOMAIN images |-> 1]
  /\ limit = CONCURRENCY_LIMIT
  /\ started = FALSE
  /\ queue = <<>>
  /\ workers = <<>>
  /\ poolState = "pending"
  /\ taskCalls = [i \in DOMAIN images |-> 0]

\* handleExportImages up to `await runConcurrent(...)` (lines 43-47, 130)
ExportStart ==
  /\ Len(images) > 0
  /\ RunConcurrent
  /\ dl' = DownloadsBegun(workers', dl, disk)
  /\ UNCHANGED <<images, disk, completed, exportLog, serverVars, batchVars>>

\* a catch block that counts the failed item as downloaded
DownloadFailedCounted(w) ==
  /\ exportLog' = Append(exportLog, [type |-> "error", img |-> dl[w].img, count |-> 0])
  /\ dl' = [dl EXCEPT ![w] = NoDownload]
  /\ TaskSettle(w, FALSE)
  /\ completed' = completed + 1
  /\ UNCHANGED <<images, serverVars, batchVars>>

\* the catch block of downloadImage (lines 110-127): the item is logged as
\* failed and the task's promise fulfils
DownloadFailed(w) ==
  /\ exportLog' = Append(exportLog, [type |-> "error", img |-> dl[w].img, count |-> 0])
  /\ dl' = [dl EXCEPT ![w] = NoDownload]
  /\ TaskSettle(w, FALSE)
  /\ UNCHANGED <<images, completed, serverVars, batchVars>>

\* request.on("response") with a status other than 200 (lines 79-86)
ExportBadStatus(w) ==
  /\ dl[w].phase = "requested"
  /\ DownloadFailed(w)
  /\ UNCHANGED disk

\* request.on("error", reject) (line 101)
ExportRequestError(w) ==
  /\ dl[w].phase = "requested"
  /\ DownloadFailed(w)
  /\ UNCHANGED disk

\* request.on("response") with status 200: fs.createWriteStream(filePath)
\* creates the file, or truncates the one that is there (line 88)
ExportResponse(w) ==
  /\ dl[w].phase = "requested"
  /\ disk' = [f \in DOMAIN disk \cup {dl[w].path} |->
                IF f = dl[w].path THEN [data |-> 0] ELSE disk[f]]
  /\ dl' = [dl EXCEPT ![w].phase = "streaming"]
  /\ UNCHANGED <<images, completed, exportLog>>
  /\ UNCHANGED <<poolVars, serverVars, batchVars>>

\* response.on("data"): fileStream.write(chunk) (lines 89-91); the image's
\* bytes arrive as one chunk, written at the start of the stream's file
ExportData(w) ==
  /\ dl[w].phase = "streaming"
  /\ disk' = [disk EXCEPT ![dl[w].path] = [data |-> dl[w].img]]
  /\ dl' = [dl EXCEPT ![w].phase = "written"]
  /\ UNCHANGED <<images, completed, exportLog>>
  /\ UNCHANGED <<poolVars, serverVars, batchVars>>

\* response.on("end"): fileStream.end(); resolve(); then completed++ and the
\* "Downloaded k/total" event (lines 92-95, 105-109)
ExportEnd(w) ==
  /\ dl[w].phase = "written"
  /\ completed' = completed + 1
  /\ exportLog' = Append(exportLog,
                         [type |-> "info", img |-> dl[w].img, count |-> completed + 1])
  /\ dl' = [dl EXCEPT ![w] = NoDownload]
  /\ TaskSettle(w, FALSE)
  /\ UNCHANGED <<images, disk, serverVars, batchVars>>

\* response.on("error"): fileStream.close(); reject(err) (lines 96-99); the
\* file created for the stream is left as it is
ExportStreamError(w) ==
  /\ dl[w].phase \in {"streaming", "written"}
  /\ DownloadFailed(w)
  /\ UNCHANGED disk

\* a worker returns from `await task(item)` and runs its loop again
ExportWorkerResume(w) ==
  /\ Len(images) > 0
  /\ WorkerResume(w)
  /\ dl' = DownloadsBegun(workers', dl, disk)
  /\ UNCHANGED <<images, disk, completed, exportLog, serverVars, batchVars>>

\* await Promise.all(workers) fulfils
ExportPoolResolved == Len(images) > 0 /\ PoolResolve /\ UNCHANGED <<exportVars, serverVars, batchVars>>

\* the summary sent after `await runConcurrent(...)` (lines 132-135)
ExportSummary ==
  /\ Len(images) > 0
  /\ poolState = "resolved"
  /\ \A k \in DOMAIN exportLog : exportLog[k].type # "success"
  /\ exportLog' = Append(exportLog, [type |-> "success", img |-> 0, count |-> completed])
  /\ UNCHANGED <<images, disk, dl, completed>>
  /\ UNCHANGED <<poolVars, serverVars, batchVars>>

ExportNext ==
  \/ ExportStart
  \/ \E w \in 1..CONCURRENCY_LIMIT : ExportBadStatus(w)
  \/ \E w \in 1..CONCURRENCY_LIMIT : ExportRequestError(w)
  \/ \E w \in 1..CONCURRENCY_LIMIT : ExportResponse(w)
  \/ \E w \in 1..CONCURRENCY_LIMIT : ExportData(w)
  \/ \E w \in 1..CONCURRENCY_LIMIT : ExportEnd(w)
  \/ \E w \in 1..CONCURRENCY_LIMIT : ExportStreamError(w)
  \/ \E w \in 1..CONCURRENCY_LIMIT : ExportWorkerResume(w)
  \/ ExportPoolResolved
  \/ ExportSummary

\* --------------------------------------------------- handleBatchUpload ---
\* A file of a folder is its extension as written (the text after the last
\* dot of its name) and its size in bytes (fs.stat); the folders of a varied
\* config hold files of one size, those of a plain one files of two.
FileExts == {"jpg", "JPG", "png", "txt"}
FolderFiles == [ext : FileExts, size : {1}]

\* String.prototype.toLowerCase on an extension
ToLowerCase(x) == IF x = "JPG" THEN "jpg" ELSE IF x = "PNG" THEN "png" ELSE x

\* entry.extensions as written in the config; NoTypes: the key is absent
NoTypes == <<"undefined">>
TypeLists == {NoTypes, <<"png">>, <<"jpg", "png">>, <<"png", "txt">>}

\* const types = entry.extensions || ["jpg", "png", "tif"]
TypesOf(e) == IF e.types = NoTypes THEN <<"jpg", "png", "tif">> ELSE e.types

\* a test that accepts every file, whatever the list says
IncludesAnything(types, f) == TRUE

\* types.includes(path.extname(file).slice(1).toLowerCase())
Includes(types, f) == \E k \in DOMAIN types : types[k] = ToLowerCase(f.ext)

\* `for (const file of files) if (types.includes(ext)) allFiles.push(...)`
RECURSIVE KeepMatching(_, _)
KeepMatching(types, files) ==
  IF files = <<>> THEN <<>>
  ELSE (IF Includes(types, Head(files)) THEN <<Head(files)>> ELSE <<>>)
         \o KeepMatching(types, Tail(files))

\* a config entry with the state of the folder it names: whether fs.access
\* and fs.readdir succeed, and what readdir lists (nothing when either fails)
FileLists == UNION {[1..n -> FolderFiles] : n \in 0..MaxFound}
ConfigEntries ==
  {[access |-> TRUE, readable |-> TRUE, types |-> t, files |-> fl] :
     t \in TypeLists, fl \in FileLists}
  \cup {[access |-> a, readable |-> FALSE, types |-> t, files |-> <<>>] :
          a \in BOOLEAN, t \in TypeLists}

\* a folder of n .jpg files under an entry without an extensions key
PlainEntry(n) ==
  [access |-> TRUE, readable |-> TRUE, types |-> NoTypes,
   files |-> [i \in 1..n |-> [ext |-> "jpg", size |-> 1 + (i % 2)]]]

\* a mime mapping that has a type for every extension
SupportsAnything(ext) == TRUE

\* the mime mapping of uploadFile: any other extension throws
Supported(ext) == ToLowerCase(ext) \in {"jpg", "jpeg", "png", "tif", "tiff"}

NoUpload == [phase |-> "none", file |-> 0, req |-> 0]

NoLog == [skips |-> 0, unread |-> 0, found |-> 0, nothing |-> 0,
          errors |-> <<>>, progress |-> <<>>, summary |-> <<>>]

\* the uploads started by the workers that `ws` shows awaiting a new task:
\* uploadFile runs to `await fs.promises.stat`
UploadsBegun(ws, old) ==
  [w \in 1..CONCURRENCY_LIMIT |->
     IF w \in DOMAIN ws /\ ws[w].pc = "await" /\ old[w].phase = "none"
     THEN [phase |-> "io", file |-> ws[w].item, req |-> 0] ELSE old[w]]

BatchAtRest ==
  /\ bphase = "idle"
  /\ entries = 0
  /\ allFiles = <<>>
  /\ successCount = 0
  /\ failCount = 0
  /\ totalSize = 0
  /\ processed = 0
  /\ up = [w \in 1..CONCURRENCY_LIMIT |-> NoUpload]
  /\ posted = <<>>
  /\ batchLog = NoLog

\* handleBatchUpload with the config parsed (lines 9-47): the counters are
\* zero and allFiles is empty
BatchInit ==
  /\ bphase = "discover"
  /\ entries = 0
  /\ allFiles = <<>>
  /\ successCount = 0
  /\ failCount = 0
  /\ totalSize = 0
  /\ processed = 0
  /\ up = [w \in 1..CONCURRENCY_LIMIT |-> NoUpload]
  /\ posted = <<>>
  /\ batchLog = NoLog
  /\ items = <<>>
  /\ limit = CONCURRENCY_LIMIT
  /\ started = FALSE
  /\ queue = <<>>
  /\ workers = <<>>
  /\ poolState = "pending"
  /\ taskCalls = <<>>

\* one turn of the discovery loop (lines 50-82): what allFiles holds after it
Discovered(e, found) ==
  IF e.access /\ e.readable
  THEN found \o KeepMatching(TypesOf(e), e.files)
  ELSE found

\* one turn of `for (const entry of config)`: a missing folder is skipped with
\* an event, an unreadable one logged, the matching files of any other pushed
DiscoverStep(e) ==
  /\ bphase = "discover"
  /\ entries < MaxFolders
  /\ entries' = entries + 1
  /\ allFiles' = Discovered(e, allFiles)
  /\ batchLog' = [batchLog EXCEPT
       !.skips = IF e.access THEN @ ELSE @ + 1,
       !.unread = IF e.access /\ ~e.readable THEN @ + 1 ELSE @]
  /\ items' = [i \in DOMAIN allFiles' |-> 1]
  /\ taskCalls' = [i \in DOMAIN allFiles' |-> 0]
  /\ UNCHANGED <<bphase, successCount, failCount, totalSize, processed, up, posted>>
  /\ UNCHANGED <<limit, started, queue, workers, poolState>>
  /\ UNCHANGED <<exportVars, serverVars>>

\* discovery over any config entry, keeping the batch small
Discover ==
  /\ bphase = "discover"
  /\ entries < MaxFolders
  /\ \E e \in ConfigEntries :
       /\ Len(Discovered(e, allFiles)) <= MaxFound
       /\ DiscoverStep(e)

\* discovery of one folder of .jpg files
BatchDiscover ==
  \E n \in 1..MaxFiles :
    /\ entries = 0
    /\ DiscoverStep(PlainEntry(n))

\* an empty batch that sends "No files to upload" and then a summary as well
BatchNothingThenSummary ==
  /\ bphase = "discover"
  /\ allFiles = <<>>
  /\ bphase' = "done"
  /\ batchLog' = [batchLog EXCEPT
       !.nothing = @ + 1,
       !.summary = Append(@, [success |-> 0, failed |-> 0, size |-> 0, type |-> "success"])]
  /\ UNCHANGED <<entries, allFiles, successCount, failCount, totalSize, processed,
                 up, posted>>
  /\ UNCHANGED <<poolVars, exportVars, serverVars>>

\* the config is exhausted and nothing was found (lines 85-92)
BatchNothing ==
  /\ bphase = "discover"
  /\ allFiles = <<>>
  /\ bphase' = "empty"
  /\ batchLog' = [batchLog EXCEPT !.nothing = @ + 1]
  /\ UNCHANGED <<entries, allFiles, successCount, failCount, totalSize, processed,
                 up, posted>>
  /\ UNCHANGED <<poolVars, exportVars, serverVars>>

\* the config is exhausted with files found: "Found n files" and
\* runConcurrent(allFiles, 5, uploadFile) up to its await (lines 93-100, 165)
BatchStart ==
  /\ bphase = "discover"
  /\ allFiles # <<>>
  /\ bphase' = "upload"
  /\ batchLog' = [batchLog EXCEPT !.found = Len(allFiles),
                                  !.errors = [i \in DOMAIN allFiles |-> 0]]
  /\ RunConcurrent
  /\ up' = UploadsBegun(workers', up)
  /\ posted' = [i \in DOMAIN allFiles |-> ""]
  /\ UNCHANGED <<entries, allFiles, successCount, failCount, totalSize, processed>>
  /\ UNCHANGED <<exportVars, serverVars>>

\* a progress rule that reports multiples of 5 only
ProgressEveryFive(k, n) == k % 5 = 0

\* `processed % 5 === 0 || processed === totalFiles`
ProgressDue(k, n) == k % 5 = 0 \/ k = n

\* a finally block after which the task's promise rejects
FinallyRethrows(w) ==
  /\ processed' = processed + 1
  /\ up' = [up EXCEPT ![w] = NoUpload]
  /\ TaskSettle(w, TRUE)
  /\ UNCHANGED <<bphase, entries, allFiles>>
  /\ UNCHANGED <<exportVars, serverVars>>

\* the finally block (lines 154-162) and the fulfilment of the task's promise
FinallyOfTask(w) ==
  /\ processed' = processed + 1
  /\ up' = [up EXCEPT ![w] = NoUpload]
  /\ TaskSettle(w, FALSE)
  /\ UNCHANGED <<bphase, entries, allFiles>>
  /\ UNCHANGED exportVars

\* the same while the server takes no step
Finally(w) == FinallyOfTask(w) /\ UNCHANGED serverVars

\* the log after the events of this turn: an error event for the file if
\* `failed`, then "Processed k/n" if it is due
LogAfter(w, failed) ==
  [batchLog EXCEPT
     !.errors[up[w].file] = IF failed THEN @ + 1 ELSE @,
     !.progress = IF ProgressDue(processed + 1, Len(allFiles))
                  THEN Append(@, processed + 1) ELSE @]

\* the catch block (lines 146-153): stat or readFile rejected, the extension
\* has no mime type, or fetch rejected
Caught(w, what) ==
  /\ failCount' = failCount + 1
  /\ posted' = [posted EXCEPT ![up[w].file] = what]
  /\ batchLog' = LogAfter(w, TRUE)
  /\ Finally(w)
  /\ UNCHANGED <<successCount, totalSize>>

\* fs.promises.stat or readFile rejects, or the mime mapping throws
BatchTaskThrow(w) ==
  /\ bphase = "upload"
  /\ up[w].phase = "io"
  /\ Caught(w, "unsent")

\* fetch rejects (no response)
BatchFetchError(w) ==
  /\ bphase = "upload"
  /\ up[w].phase = "io"
  /\ Supported(allFiles[up[w].file].ext)
  /\ Caught(w, "threw")

\* response.ok (lines 126-128)
BatchResponseOk(w) ==
  /\ bphase = "upload"
  /\ up[w].phase = "io"
  /\ Supported(allFiles[up[w].file].ext)
  /\ successCount' = successCount + 1
  /\ totalSize' = totalSize + allFiles[up[w].file].size
  /\ posted' = [posted EXCEPT ![up[w].file] = "ok"]
  /\ batchLog' = LogAfter(w, FALSE)
  /\ Finally(w)
  /\ UNCHANGED failCount

\* a response that is not ok: failCount++ and `await response.json()`
\* (lines 129-133)
BatchResponseNotOk(w) ==
  /\ bphase = "upload"
  /\ up[w].phase = "io"
  /\ Supported(allFiles[up[w].file].ext)
  /\ failCount' = failCount + 1
  /\ posted' = [posted EXCEPT ![up[w].file] = "notok"]
  /\ up' = [up EXCEPT ![w].phase = "json"]
  /\ UNCHANGED <<bphase, entries, allFiles, successCount, totalSize,
                 processed, batchLog>>
  /\ UNCHANGED <<poolVars, exportVars, serverVars>>

\* an error event that counts the failure a second time
BatchErrorCounted(w) ==
  /\ bphase = "upload"
  /\ up[w].phase = "json"
  /\ failCount' = failCount + 1
  /\ batchLog' = LogAfter(w, TRUE)
  /\ Finally(w)
  /\ UNCHANGED <<successCount, totalSize, posted>>

\* response.json() settles either way: the error event (lines 134-144)
BatchErrorLogged(w) ==
  /\ bphase = "upload"
  /\ up[w].phase = "json"
  /\ batchLog' = LogAfter(w, TRUE)
  /\ Finally(w)
  /\ UNCHANGED <<successCount, failCount, totalSize, posted>>

\* a worker returns from `await task(item)` and runs its loop again
BatchWorkerResume(w) ==
  /\ bphase = "upload"
  /\ WorkerResume(w)
  /\ up' = UploadsBegun(workers', up)
  /\ UNCHANGED <<bphase, entries, allFiles, successCount, failCount,
                 totalSize, processed, posted, batchLog>>
  /\ UNCHANGED <<exportVars, serverVars>>

\* await Promise.all(workers) fulfils
BatchPoolResolved ==
  /\ bphase = "upload"
  /\ PoolResolve
  /\ UNCHANGED <<batchVars, exportVars, serverVars>>

\* the summary sent after `await runConcurrent(...)` (lines 167-175)
BatchSummary ==
  /\ bphase = "upload"
  /\ poolState = "resolved"
  /\ bphase' = "done"
  /\ batchLog' = [batchLog EXCEPT !.summary =
       Append(@, [success |-> successCount, failed |-> failCount, size |-> totalSize,
                  type |-> IF failCount > 0 THEN "error" ELSE "success"])]
  /\ UNCHANGED <<entries, allFiles, successCount, failCount, totalSize,
                 processed, up, posted>>
  /\ UNCHANGED <<poolVars, exportVars, serverVars>>

\* the steps of the upload phase that belong to runConcurrent and its caller
DrainNext ==
  \/ BatchStart
  \/ \E w \in 1..CONCURRENCY_LIMIT : BatchWorkerResume(w)
  \/ BatchPoolResolved
  \/ BatchSummary

\* the upload phase when every file is read and every request is answered
\* (with a 2xx status or another)
AnsweredNext ==
  \/ DrainNext
  \/ \E w \in 1..CONCURRENCY_LIMIT : BatchResponseOk(w)
  \/ \E w \in 1..CONCURRENCY_LIMIT : BatchResponseNotOk(w)
  \/ \E w \in 1..CONCURRENCY_LIMIT : BatchErrorLogged(w)

\* the upload phase when a file is either refused before any request (it
\* cannot be read, or its type has no mime mapping) or accepted by the server
LocalNext ==
  \/ DrainNext
  \/ \E w \in 1..CONCURRENCY_LIMIT : BatchTaskThrow(w)
  \/ \E w \in 1..CONCURRENCY_LIMIT : BatchResponseOk(w)

\* the upload phase in general
TransferNext ==
  \/ AnsweredNext
  \/ \E w \in 1..CONCURRENCY_LIMIT : BatchTaskThrow(w)
  \/ \E w \in 1..CONCURRENCY_LIMIT : BatchFetchError(w)

BatchNext == AnsweredNext \/ BatchDiscover

\* the fetch of one upload is never answered and never fails: the promise
\* `await fetch(...)` waits on stays pending (line 121; no timeout, no signal)
BatchFetchHangs(w) ==
  /\ bphase = "upload"
  /\ up[w].phase = "io"
  /\ Supported(allFiles[up[w].file].ext)
  /\ \A v \in 1..CONCURRENCY_LIMIT : up[v].phase # "hung"
  /\ up' = [up EXCEPT ![w].phase = "hung"]
  /\ UNCHANGED <<bphase, entries, allFiles, successCount, failCount, totalSize,
                 processed, posted, batchLog>>
  /\ UNCHANGED <<poolVars, exportVars, serverVars>>

\* the upload phase when at most one request hangs and every other one is
\* answered with an ok status
HangNext ==
  \/ DrainNext
  \/ \E w \in 1..CONCURRENCY_LIMIT : BatchResponseOk(w)
  \/ \E w \in 1..CONCURRENCY_LIMIT : BatchFetchHangs(w)
  \/ BatchDiscover

\* discovery of one folder of a few .jpg files
FewDiscover ==
  \E n \in 1..MaxFound :
    /\ entries = 0
    /\ DiscoverStep(PlainEntry(n))

\* either batch operation of the client, with every way an item can fail
ClientNext == TransferNext \/ ExportNext \/ FewDiscover

DiscoveryNext == LocalNext \/ BatchNothing \/ Discover

\* ---- discovery over configs and folders that differ in letter case ----
\* extensions as written in a file name or in a config's extensions list
CasedExts == {"jpg", "JPG", "png", "PNG"}
CasedTypeLists == {<<"png">>, <<"PNG">>, <<"JPG">>, <<"jpg", "PNG">>}
CasedFiles == [ext : CasedExts, size : {1}]
\* entries whose folder is listed, with up to MaxFound files
CasedEntries ==
  {[access |-> TRUE, readable |-> TRUE, types |-> t, files |-> fl] :
     t \in CasedTypeLists, fl \in UNION {[1..n -> CasedFiles] : n \in 0..MaxFound}}

\* one turn of the discovery loop over such an entry
CasedDiscover == \E e \in CasedEntries : DiscoverStep(e)

FilterNext == CasedDiscover

\* ----------------------------------------------------------- server ---
\* The routes run on one event loop: a handler runs without interruption
\* between two awaits, and every await (a file operation, a query) is a point
\* where another request's handler may run. One action below is one such
\* stretch; steps that touch only the request's own staged file are joined to
\* the stretch before them.

Variants == {"exif", "soft"}
\* the request handlers that may be in flight together: two, since every race
\* between handlers is a race between two of them
Slots == {1, 2}

\* ---- file contents ----
\* The bytes of an image file: which picture (0: not a decodable image), the
\* regions extracted from it, innermost first, and its EXIF tag (0: none).
Pictures == {1, 2}
\* an extract rectangle: BadRect lies outside the image
BadRect == 0
Rects == {BadRect, 1}
TagVals == {0, 1}
\* the tag value an EXIF edit writes
EditTags == {1}
NoBytes == [img |-> 0, crop |-> <<>>, exif |-> 0]
CorruptBytes == [img |-> 0, crop |-> <<>>, exif |-> 1]
UploadBytes == {[img |-> p, crop |-> <<>>, exif |-> 0] : p \in Pictures} \cup {CorruptBytes}

\* exiftool.read / sharp can parse the file
Decodable(b) == b.img # 0

\* sharp(path).extract(rect).toFile(): the region's pixels, re-encoded; sharp
\* writes no EXIF unless asked to
CropBytes(b, r) == [img |-> b.img, crop |-> Append(b.crop, r), exif |-> 0]

\* exiftool.write(path, payload, -overwrite_original)
WriteExif(b, t) == [b EXCEPT !.exif = t]

\* crypto.createHash("md5").update(fileBuffer).digest("hex"): a function of the
\* bytes alone, taken to be free of collisions
FileHash(b) == [md5 |-> b]
NoHash == [md5 |-> NoBytes]

\* fs.stat(path).size / file.size: a function of the bytes
FileSize(b) == [sizeOf |-> b]

\* ---- names and paths ----
\* originalname: its extension and how many "cropped_" prefixes it carries
UploadNames == {[pre |-> 0, base |-> "a", ext |-> ".jpg"]}
NoName == [pre |-> 0, base |-> "", ext |-> ""]
Folders == {"default"}

\* `cropped_${baseOriginalName}`
CroppedName(n) == [n EXCEPT !.pre = @ + 1]

\* upload.ts: the mime type the client derives from the extension
MimeOf(ext) == IF ext = ".jpg" THEN "image/jpeg" ELSE "image/png"

\* generateUniqueFilename(originalName, hash): `${hash}_${Date.now()}${ext}`
GenerateUniqueFilename(name, h, t) == [h |-> h, ts |-> t, ext |-> name.ext]
NoFilename == [h |-> NoHash, ts |-> 0, ext |-> ""]

NoPath == [dir |-> <<>>, pre |-> "", file |-> NoFilename]

\* multer's filename: `temp-${Date.now()}-${randomBytes(6)}${ext}` in the temp
\* directory; the random part makes it the request's own (its serial number)
StagedPath(req, name) ==
  [dir |-> <<"temp">>, pre |-> "temp-", file |-> [h |-> NoHash, ts |-> req, ext |-> name.ext]]

\* path.join(STORAGE_PATH, folderName, uniqueFilename)
FinalPath(folder, fname) == [dir |-> <<folder>>, pre |-> "", file |-> fname]

\* path.join(STORAGE_PATH, folderName, "thumbnails",
\*           `thumb_${uniqueFilename.replace(/\.[^/.]+$/, "")}.webp`)
ThumbnailPath(folder, fname) ==
  [dir |-> <<folder, "thumbnails">>, pre |-> "thumb_",
   file |-> [fname EXCEPT !.ext = ".webp"]]

\* path.join(STORAGE_PATH, "temp", `temp_crop_${Date.now()}${ext}`)
CropTempPath(t, ext) ==
  [dir |-> <<"temp">>, pre |-> "temp_crop_", file |-> [h |-> NoHash, ts |-> t, ext |-> ext]]

\* ---- the file system ----
\* a file: its bytes and what it is
ImageFile(b) == [bytes |-> b, kind |-> "image"]
\* the 300x300 WebP that generateThumbnailFromPath writes
ThumbFile(b) == [bytes |-> b, kind |-> "thumbnail"]
\* what a failed toFile may leave at its destination
PartialFile(b) == [bytes |-> b, kind |-> "partial"]

Exists(f, path) == path \in DOMAIN f

\* fs.writeFile / toFile / createWriteStream: create or replace
WriteFile(f, path, file) ==
  [q \in DOMAIN f \cup {path} |-> IF q = path THEN file ELSE f[q]]

\* deleteFileIfExists(filePath): unlink, ENOENT ignored
DeleteFileIfExists(f, path) == [q \in DOMAIN f \ {path} |-> f[q]]

\* moveFile(sourcePath, destPath): fs.rename
MoveFile(f, src, dst) == DeleteFileIfExists(WriteFile(f, dst, f[src]), src)

\* ---- the images table ----
NoRow == [id |-> 0, filename |-> NoFilename, path |-> NoPath, thumbnail_path |-> NoPath,
          folder_name |-> "", size |-> FileSize(NoBytes), mimetype |-> "",
          filehash |-> NoHash, originalName |-> NoName, deleted |-> FALSE]

\* prisma.image.create: the table has a primary key on id and no other
\* constraint, so every insert is accepted
InsertRow(c, row) == [i \in DOMAIN c \cup {row.id} |-> IF i = row.id THEN row ELSE c[i]]

\* a duplicate check that finds nothing
NoRowWithHash(c, h) == {}

\* prisma.image.findFirst({ where: { filehash } }): the rows it may return
RowsWithHash(c, h) == {i \in DOMAIN c : c[i].filehash = h}

\* ---- responses ----
NoResp == [status |-> 0, code |-> "", ref |-> 0]
\* sendSuccess(res, data, status)
SendSuccess(status, ref) == [status |-> status, code |-> "", ref |-> ref]
\* sendError(res, message, status, code, details)
SendError(status, code, ref) == [status |-> status, code |-> code, ref |-> ref]

\* ---- error bodies ----
\* what an exception says of itself: error.message
Messages == {"", "ENOSPC: no space left on /dev/sda1", "connect ECONNREFUSED 10.0.0.5:5432"}
\* err.name; "NonError" stands for a thrown value that is not an Error
ErrorNames == {"Error", "TypeError", "PrismaClientKnownRequestError",
               "ValidationError", "ApiError", "NonError"}
\* who catches it: the outer catch of the upload route, the catch of the crop
\* route, or asyncHandler passing it to errorHandler
Catchers == {"upload", "crop", "errorHandler"}
Exceptions ==
  {e \in [catcher : Catchers, name : ErrorNames, message : Messages] :
     e.name = "NonError" => e.message = ""}

NoBody == [status |-> 0, message |-> "", code |-> ""]
\* sendError(res, message, statusCode, code): the JSON body and the status
ErrorBody(message, status, code) == [status |-> status, message |-> message, code |-> code]

\* `error instanceof Error ? error.message : fallback`
MessageOr(e, fallback) == IF e.name = "NonError" THEN fallback ELSE e.message

\* errorHandler; an ApiError carries its own status and code (here 404)
ErrorMiddleware(e) ==
  IF e.name = "ApiError" THEN ErrorBody(e.message, 404, "NOT_FOUND")
  ELSE IF e.name = "PrismaClientKnownRequestError"
  THEN ErrorBody("Database error occurred", 500, "DATABASE_ERROR")
  ELSE IF e.name = "ValidationError" THEN ErrorBody(e.message, 400, "VALIDATION_ERROR")
  ELSE ErrorBody(IF e.message = "" THEN "Internal server error" ELSE e.message,
                 500, "INTERNAL_ERROR")

\* the body the client receives for exception e
Answered(e) ==
  IF e.catcher = "upload"
  THEN ErrorBody(MessageOr(e, "Failed to upload image"), 500, "UPLOAD_FAILED")
  ELSE IF e.catcher = "crop"
  THEN ErrorBody(MessageOr(e, "Failed to crop image"), 500, "CROP_FAILED")
  ELSE ErrorMiddleware(e)

\* ---- requests ----
IdleReq ==
  [kind |-> "none", pc |-> "idle", id |-> 0, bytes |-> NoBytes, name |-> NoName,
   folder |-> "", temp |-> NoPath, hash |-> NoHash, filename |-> NoFilename,
   final |-> NoPath, thumb |-> NoPath, target |-> 0, src |-> NoRow, rect |-> 0,
   tag |-> 0, ran |-> {}, failed |-> "", resp |-> NoResp]

Free(s) == reqs[s].pc \in {"idle", "done"}

\* the slot a new request is handled in: the lowest free one
NextSlot == IF Free(1) THEN 1 ELSE IF Free(2) THEN 2 ELSE 0

\* the handler ends with this response; of the request only the kind, the
\* steps it ran and the step that failed are kept
Respond(r, resp) ==
  [IdleReq EXCEPT !.kind = r.kind, !.pc = "done", !.ran = r.ran,
                  !.failed = r.failed, !.resp = resp]

\* what Date.now() may return: the clock never goes back
ClockReadings == now..MaxClock

\* the server is not running: no stored image, no handler
RoutesAtRest ==
  /\ variant = "exif"
  /\ catalog = <<>>
  /\ fs = <<>>
  /\ reqs = <<>>
  /\ now = 0
  /\ nextReq = 1
  /\ nextId = 1

ServerAtRest == RoutesAtRest /\ thrown = <<>>

\* the image the catalog holds at the start: picture 1, uploaded as a.jpg by
\* a request that ran to its 201
SeedName == [pre |-> 0, base |-> "a", ext |-> ".jpg"]
SeedBytes == [img |-> 1, crop |-> <<>>, exif |-> 0]
\* the seed was stored before the clock's first reading
SeedFilename == GenerateUniqueFilename(SeedName, FileHash(SeedBytes), -1)
SeedRow ==
  [id |-> 1, filename |-> SeedFilename, path |-> FinalPath("default", SeedFilename),
   thumbnail_path |-> ThumbnailPath("default", SeedFilename), folder_name |-> "default",
   size |-> FileSize(SeedBytes), mimetype |-> MimeOf(".jpg"),
   filehash |-> FileHash(SeedBytes), originalName |-> SeedName, deleted |-> FALSE]

ServerInit ==
  /\ variant \in Variants
  /\ catalog = InsertRow(<<>>, SeedRow)
  /\ fs = WriteFile(WriteFile(<<>>, SeedRow.path, ImageFile(SeedBytes)),
                    SeedRow.thumbnail_path, ThumbFile(SeedBytes))
  /\ reqs = [s \in Slots |-> IdleReq]
  /\ now = 0
  /\ nextReq = 1
  /\ nextId = 2
  /\ thrown = <<>>

PoolAtRest ==
  /\ items = <<>>
  /\ limit = 1
  /\ started = FALSE
  /\ queue = <<>>
  /\ workers = <<>>
  /\ poolState = "pending"
  /\ taskCalls = <<>>

ClientAtRest == UNCHANGED <<poolVars, exportVars, batchVars>>

\* ---- error responses (error.middleware.ts 22-58) ----
\* exceptions have been raised in MaxThrown requests; none is answered yet
ErrorsInit ==
  /\ RoutesAtRest
  /\ thrown \in [1..MaxThrown -> [exc : Exceptions, body : {NoBody}]]

\* the k-th exception reaches its catch block or the error middleware
Answer(k) ==
  /\ k \in DOMAIN thrown
  /\ thrown[k].body = NoBody
  /\ thrown' = [thrown EXCEPT ![k].body = Answered(thrown[k].exc)]
  /\ UNCHANGED <<variant, catalog, fs, reqs, now, nextReq, nextId>>
  /\ ClientAtRest

ErrorsNext == \E k \in 1..MaxThrown : Answer(k)

\* ---- POST /api/images (part_001 113-243, images.routes.ts 34-166) ----
Rest == UNCHANGED <<variant, thrown>> /\ ClientAtRest

\* multer has staged the uploaded file; the handler is about to start
StageUpload(s, b, name, folder) ==
  /\ reqs' = [reqs EXCEPT ![s] =
       [IdleReq EXCEPT !.kind = "upload", !.pc = "validate", !.id = nextReq,
                       !.bytes = b, !.name = name, !.folder = folder,
                       !.temp = StagedPath(nextReq, name)]]
  /\ fs' = WriteFile(fs, StagedPath(nextReq, name), ImageFile(b))
  /\ nextReq' = nextReq + 1
  /\ UNCHANGED <<catalog, now, nextId>>

\* an upload request from any client
UploadArrive(s, b, name, folder) ==
  /\ s = NextSlot
  /\ nextReq <= MaxRequests
  /\ StageUpload(s, b, name, folder)
  /\ Rest

\* an upload that answers INVALID_IMAGE and leaves the staged file behind
InvalidKeepsStaged(s) ==
  /\ reqs[s].kind = "upload" /\ reqs[s].pc = "validate"
  /\ ~Decodable(fs[reqs[s].temp].bytes)
  /\ reqs' = [reqs EXCEPT ![s] =
       Respond([@ EXCEPT !.ran = {"validate"}, !.failed = "validate"],
               SendError(400, "INVALID_IMAGE", 0))]
  /\ UNCHANGED <<fs, catalog, now, nextReq, nextId>>
  /\ Rest

\* step 1 fails: getExifDataFromPath throws, the staged file is deleted and
\* the answer is 400 INVALID_IMAGE
UploadInvalid(s) ==
  /\ reqs[s].kind = "upload" /\ reqs[s].pc = "validate"
  /\ ~Decodable(fs[reqs[s].temp].bytes)
  /\ fs' = DeleteFileIfExists(fs, reqs[s].temp)
  /\ reqs' = [reqs EXCEPT ![s] =
       Respond([@ EXCEPT !.ran = {"validate"}, !.failed = "validate"],
               SendError(400, "INVALID_IMAGE", 0))]
  /\ UNCHANGED <<catalog, now, nextReq, nextId>>
  /\ Rest

\* step 1 succeeds, then step 2: calculateFileHash(tempFilePath)
UploadValidated(s) ==
  /\ reqs[s].kind = "upload" /\ reqs[s].pc = "validate"
  /\ Decodable(fs[reqs[s].temp].bytes)
  /\ reqs' = [reqs EXCEPT ![s] =
       [@ EXCEPT !.pc = "find", !.ran = {"validate", "hash"},
                 !.hash = FileHash(fs[reqs[s].temp].bytes)]]
  /\ UNCHANGED <<fs, catalog, now, nextReq, nextId>>
  /\ Rest

\* step 3 finds a row with the hash: staged file deleted, 409 DUPLICATE_IMAGE
UploadDuplicate(s, e) ==
  /\ reqs[s].kind = "upload" /\ reqs[s].pc = "find"
  /\ e \in RowsWithHash(catalog, reqs[s].hash)
  /\ fs' = DeleteFileIfExists(fs, reqs[s].temp)
  /\ reqs' = [reqs EXCEPT ![s] =
       Respond([@ EXCEPT !.ran = @ \cup {"find"}, !.failed = "duplicate"],
               SendError(409, "DUPLICATE_IMAGE", e))]
  /\ UNCHANGED <<catalog, now, nextReq, nextId>>
  /\ Rest

\* step 3 finds nothing: the unique filename and the two paths are derived,
\* with Date.now() read at time t
UploadAdmitted(s, t) ==
  /\ reqs[s].kind = "upload" /\ reqs[s].pc = "find"
  /\ RowsWithHash(catalog, reqs[s].hash) = {}
  /\ t \in ClockReadings
  /\ now' = t
  /\ LET fname == GenerateUniqueFilename(reqs[s].name, reqs[s].hash, t) IN
       reqs' = [reqs EXCEPT ![s] =
         [@ EXCEPT !.pc = "thumb", !.ran = @ \cup {"find"}, !.filename = fname,
                   !.final = FinalPath(reqs[s].folder, fname),
                   !.thumb = ThumbnailPath(reqs[s].folder, fname)]]
  /\ UNCHANGED <<fs, catalog, nextReq, nextId>>
  /\ Rest

\* generateThumbnailFromPath(tempFilePath, thumbnailPath) succeeds
UploadThumbOk(s) ==
  /\ reqs[s].kind = "upload" /\ reqs[s].pc = "thumb"
  /\ fs' = WriteFile(fs, reqs[s].thumb, ThumbFile(fs[reqs[s].temp].bytes))
  /\ reqs' = [reqs EXCEPT ![s] = [@ EXCEPT !.pc = "move", !.ran = @ \cup {"thumb"}]]
  /\ UNCHANGED <<catalog, now, nextReq, nextId>>
  /\ Rest

\* the code of the 500 sent when the thumbnail cannot be generated: part_001
\* answers at once, images.routes.ts rethrows to the outer catch
ThumbFailureCode == IF variant = "exif" THEN "THUMBNAIL_GENERATION_FAILED" ELSE "UPLOAD_FAILED"

\* generateThumbnailFromPath throws; sharp's toFile may or may not have left
\* an unfinished file at thumbnailPath. Only the staged file is deleted.
UploadThumbFail(s, leftover) ==
  /\ reqs[s].kind = "upload" /\ reqs[s].pc = "thumb"
  /\ fs' = DeleteFileIfExists(
             IF leftover
             THEN WriteFile(fs, reqs[s].thumb, PartialFile(fs[reqs[s].temp].bytes))
             ELSE fs,
             reqs[s].temp)
  /\ reqs' = [reqs EXCEPT ![s] =
       Respond([@ EXCEPT !.ran = @ \cup {"thumb"}, !.failed = "thumb"],
               SendError(500, ThumbFailureCode, 0))]
  /\ UNCHANGED <<catalog, now, nextReq, nextId>>
  /\ Rest

\* moveFile(tempFilePath, finalImagePath) succeeds
UploadMoveOk(s) ==
  /\ reqs[s].kind = "upload" /\ reqs[s].pc = "move"
  /\ fs' = MoveFile(fs, reqs[s].temp, reqs[s].final)
  /\ reqs' = [reqs EXCEPT ![s] = [@ EXCEPT !.pc = "create", !.ran = @ \cup {"move"}]]
  /\ UNCHANGED <<catalog, now, nextReq, nextId>>
  /\ Rest

\* moveFile throws: fs.rename changed nothing; the catch block runs next
UploadMoveFail(s) ==
  /\ reqs[s].kind = "upload" /\ reqs[s].pc = "move"
  /\ reqs' = [reqs EXCEPT ![s] =
       [@ EXCEPT !.pc = "rollback", !.ran = @ \cup {"move"}, !.failed = "move"]]
  /\ UNCHANGED <<fs, catalog, now, nextReq, nextId>>
  /\ Rest

\* a rollback that leaves the thumbnail where it is
KeepThumbnail(f, thumb) == f

\* the catch block of the move, first await: deleteFileIfExists(thumbnailPath)
RollbackThumbnail(f, thumb) == DeleteFileIfExists(f, thumb)

\* the thumbnail just generated is deleted
UploadRollbackThumb(s) ==
  /\ reqs[s].kind = "upload" /\ reqs[s].pc = "rollback"
  /\ fs' = RollbackThumbnail(fs, reqs[s].thumb)
  /\ reqs' = [reqs EXCEPT ![s] = [@ EXCEPT !.pc = "rollback2"]]
  /\ UNCHANGED <<catalog, now, nextReq, nextId>>
  /\ Rest

\* deleteFileIfExists(tempFilePath) (the outer catch repeats it), then
\* 500 UPLOAD_FAILED
UploadRollbackStaged(s) ==
  /\ reqs[s].kind = "upload" /\ reqs[s].pc = "rollback2"
  /\ fs' = DeleteFileIfExists(fs, reqs[s].temp)
  /\ reqs' = [reqs EXCEPT ![s] = Respond(@, SendError(500, "UPLOAD_FAILED", 0))]
  /\ UNCHANGED <<catalog, now, nextReq, nextId>>
  /\ Rest

\* the row prisma.image.create is asked to insert for an upload
UploadRow(r, id) ==
  [id |-> id, filename |-> r.filename, path |-> r.final, thumbnail_path |-> r.thumb,
   folder_name |-> r.folder, size |-> FileSize(r.bytes), mimetype |-> MimeOf(r.name.ext),
   filehash |-> r.hash, originalName |-> r.name, deleted |-> FALSE]

\* prisma.image.create succeeds: 201 with the new row
UploadCreateOk(s) ==
  /\ reqs[s].kind = "upload" /\ reqs[s].pc = "create"
  /\ catalog' = InsertRow(catalog, UploadRow(reqs[s], nextId))
  /\ nextId' = nextId + 1
  /\ reqs' = [reqs EXCEPT ![s] =
       Respond([@ EXCEPT !.ran = @ \cup {"create"}], SendSuccess(201, nextId))]
  /\ UNCHANGED <<fs, now, nextReq>>
  /\ Rest

\* an outer catch that also removes the relocated file and its thumbnail
UploadCreateFailRollsBack(s) ==
  /\ reqs[s].kind = "upload" /\ reqs[s].pc = "create"
  /\ fs' = DeleteFileIfExists(
             DeleteFileIfExists(DeleteFileIfExists(fs, reqs[s].temp), reqs[s].final),
             reqs[s].thumb)
  /\ reqs' = [reqs EXCEPT ![s] =
       Respond([@ EXCEPT !.ran = @ \cup {"create"}, !.failed = "create"],
               SendError(500, "UPLOAD_FAILED", 0))]
  /\ UNCHANGED <<catalog, now, nextReq, nextId>>
  /\ Rest

\* prisma.image.create throws: the outer catch deletes the staged file (already
\* moved away) and answers 500 UPLOAD_FAILED
UploadCreateFail(s) ==
  /\ reqs[s].kind = "upload" /\ reqs[s].pc = "create"
  /\ fs' = DeleteFileIfExists(fs, reqs[s].temp)
  /\ reqs' = [reqs EXCEPT ![s] =
       Respond([@ EXCEPT !.ran = @ \cup {"create"}, !.failed = "create"],
               SendError(500, "UPLOAD_FAILED", 0))]
  /\ UNCHANGED <<catalog, now, nextReq, nextId>>
  /\ Rest

\* ---- POST /api/images/:id/crop (part_001 385-504) ----
\* a record for the crop that takes the source's name as it is
CropRowKeepsName(r, id, b) ==
  [id |-> id, filename |-> r.filename, path |-> r.final, thumbnail_path |-> r.thumb,
   folder_name |-> r.folder, size |-> FileSize(b), mimetype |-> r.src.mimetype,
   filehash |-> r.hash, originalName |-> r.src.originalName,
   deleted |-> FALSE]

\* the row prisma.image.create is asked to insert for a crop
CropRow(r, id, b) ==
  [id |-> id, filename |-> r.filename, path |-> r.final, thumbnail_path |-> r.thumb,
   folder_name |-> r.folder, size |-> FileSize(b), mimetype |-> r.src.mimetype,
   filehash |-> r.hash, originalName |-> CroppedName(r.src.originalName),
   deleted |-> FALSE]

\* the catch block is entered
CropThrow(r, step) == [r EXCEPT !.pc = "catch", !.ran = @ \cup {step}, !.failed = step]

\* findUnique by id: 404 if there is no such row, else the temp path is named
\* after Date.now(), read at time t
CropFind(s, id, rect, t) ==
  /\ s = NextSlot
  /\ nextReq <= MaxRequests
  /\ id \in 1..nextId
  /\ t \in ClockReadings
  /\ IF id \in DOMAIN catalog
     THEN /\ catalog[id].originalName.pre < MaxCropDepth
          /\ now' = t
          /\ reqs' = [reqs EXCEPT ![s] =
               [IdleReq EXCEPT !.kind = "crop", !.pc = "extract", !.id = nextReq,
                               !.target = id, !.src = catalog[id], !.rect = rect,
                               !.folder = catalog[id].folder_name,
                               !.temp = CropTempPath(t, catalog[id].filename.ext),
                               !.ran = {"find"}]]
     ELSE /\ t = now
          /\ now' = now
          /\ reqs' = [reqs EXCEPT ![s] =
               Respond([IdleReq EXCEPT !.kind = "crop", !.ran = {"find"},
                                       !.failed = "find"],
                       SendError(404, "NOT_FOUND", 0))]
  /\ nextReq' = nextReq + 1
  /\ UNCHANGED <<catalog, fs, nextId>>
  /\ Rest

\* sharp(originalImage.path).extract(rect).toFile(tempPath); it throws when the
\* source file is gone or the rectangle lies outside the image
CropExtract(s) ==
  /\ reqs[s].kind = "crop" /\ reqs[s].pc = "extract"
  /\ LET src == reqs[s].src.path IN
       IF Exists(fs, src) /\ Decodable(fs[src].bytes) /\ reqs[s].rect # BadRect
       THEN /\ fs' = WriteFile(fs, reqs[s].temp,
                               ImageFile(CropBytes(fs[src].bytes, reqs[s].rect)))
            /\ reqs' = [reqs EXCEPT ![s] =
                 [@ EXCEPT !.pc = "hash", !.ran = @ \cup {"extract"}]]
       ELSE /\ fs' = fs
            /\ reqs' = [reqs EXCEPT ![s] = CropThrow(@, "extract")]
  /\ UNCHANGED <<catalog, now, nextReq, nextId>>
  /\ Rest

\* calculateFileHash(tempPath), then the unique filename with Date.now() = t
CropHash(s, t) ==
  /\ reqs[s].kind = "crop" /\ reqs[s].pc = "hash"
  /\ t \in ClockReadings
  /\ IF Exists(fs, reqs[s].temp)
     THEN LET h == FileHash(fs[reqs[s].temp].bytes)
              fname == GenerateUniqueFilename(CroppedName(reqs[s].src.originalName), h, t)
          IN /\ now' = t
             /\ reqs' = [reqs EXCEPT ![s] =
                  [@ EXCEPT !.pc = "move", !.ran = @ \cup {"hash"}, !.hash = h,
                            !.filename = fname,
                            !.final = FinalPath(reqs[s].folder, fname),
                            !.thumb = ThumbnailPath(reqs[s].folder, fname)]]
     ELSE /\ t = now
          /\ now' = now
          /\ reqs' = [reqs EXCEPT ![s] = CropThrow(@, "hash")]
  /\ UNCHANGED <<catalog, fs, nextReq, nextId>>
  /\ Rest

\* moveFile(tempPath, finalImagePath)
CropMove(s) ==
  /\ reqs[s].kind = "crop" /\ reqs[s].pc = "move"
  /\ IF Exists(fs, reqs[s].temp)
     THEN /\ fs' = MoveFile(fs, reqs[s].temp, reqs[s].final)
          /\ reqs' = [reqs EXCEPT ![s] =
               [@ EXCEPT !.pc = "thumb", !.ran = @ \cup {"move"}]]
     ELSE /\ fs' = fs
          /\ reqs' = [reqs EXCEPT ![s] = CropThrow(@, "move")]
  /\ UNCHANGED <<catalog, now, nextReq, nextId>>
  /\ Rest

\* generateThumbnailFromPath(finalImagePath, thumbnailPath)
CropThumb(s) ==
  /\ reqs[s].kind = "crop" /\ reqs[s].pc = "thumb"
  /\ IF Exists(fs, reqs[s].final)
     THEN /\ fs' = WriteFile(fs, reqs[s].thumb, ThumbFile(fs[reqs[s].final].bytes))
          /\ reqs' = [reqs EXCEPT ![s] =
               [@ EXCEPT !.pc = "create", !.ran = @ \cup {"thumb"}]]
     ELSE /\ fs' = fs
          /\ reqs' = [reqs EXCEPT ![s] = CropThrow(@, "thumb")]
  /\ UNCHANGED <<catalog, now, nextReq, nextId>>
  /\ Rest

\* fs.stat and getExifDataFromPath on the final file, then
\* prisma.image.create and 201
CropCreate(s) ==
  /\ reqs[s].kind = "crop" /\ reqs[s].pc = "create"
  /\ IF Exists(fs, reqs[s].final)
     THEN /\ catalog' = InsertRow(catalog, CropRow(reqs[s], nextId, fs[reqs[s].final].bytes))
          /\ nextId' = nextId + 1
          /\ reqs' = [reqs EXCEPT ![s] =
               Respond([@ EXCEPT !.ran = @ \cup {"create"}], SendSuccess(201, nextId))]
     ELSE /\ catalog' = catalog
          /\ nextId' = nextId
          /\ reqs' = [reqs EXCEPT ![s] = CropThrow(@, "stat")]
  /\ UNCHANGED <<fs, now, nextReq>>
  /\ Rest

\* generateThumbnailFromPath(finalImagePath, thumbnailPath) throws although the
\* final file is there; sharp's toFile may or may not have left an unfinished
\* file at thumbnailPath
CropThumbFail(s, leftover) ==
  /\ reqs[s].kind = "crop" /\ reqs[s].pc = "thumb"
  /\ Exists(fs, reqs[s].final)
  /\ fs' = IF leftover
           THEN WriteFile(fs, reqs[s].thumb, PartialFile(fs[reqs[s].final].bytes))
           ELSE fs
  /\ reqs' = [reqs EXCEPT ![s] = CropThrow(@, "thumb")]
  /\ UNCHANGED <<catalog, now, nextReq, nextId>>
  /\ Rest

\* prisma.image.create throws (the database is unreachable)
CropCreateFail(s) ==
  /\ reqs[s].kind = "crop" /\ reqs[s].pc = "create"
  /\ Exists(fs, reqs[s].final)
  /\ reqs' = [reqs EXCEPT ![s] = CropThrow(@, "create")]
  /\ UNCHANGED <<catalog, fs, now, nextReq, nextId>>
  /\ Rest

\* a catch block that also removes the relocated file and its thumbnail
CropCatchRollsBack(s) ==
  /\ reqs[s].kind = "crop" /\ reqs[s].pc = "catch"
  /\ fs' = DeleteFileIfExists(
             DeleteFileIfExists(DeleteFileIfExists(fs, reqs[s].temp), reqs[s].final),
             reqs[s].thumb)
  /\ reqs' = [reqs EXCEPT ![s] = Respond(@, SendError(500, "CROP_FAILED", 0))]
  /\ UNCHANGED <<catalog, now, nextReq, nextId>>
  /\ Rest

\* the catch block: deleteFileIfExists(tempPath), then 500 CROP_FAILED
CropCatch(s) ==
  /\ reqs[s].kind = "crop" /\ reqs[s].pc = "catch"
  /\ fs' = DeleteFileIfExists(fs, reqs[s].temp)
  /\ reqs' = [reqs EXCEPT ![s] = Respond(@, SendError(500, "CROP_FAILED", 0))]
  /\ UNCHANGED <<catalog, now, nextReq, nextId>>
  /\ Rest


\* ---- PATCH /api/images/:id/exif (part_001 510-549) ----
\* errorHandler: what an exception that leaves the handler is answered with
ErrorHandler(prisma) ==
  IF prisma THEN SendError(500, "DATABASE_ERROR", 0) ELSE SendError(500, "INTERNAL_ERROR", 0)

\* findUnique by id: 404 if there is no such row
ExifFind(s, id, tag) ==
  /\ variant = "exif"
  /\ s = NextSlot
  /\ nextReq <= MaxRequests
  /\ id \in 1..nextId
  /\ reqs' = [reqs EXCEPT ![s] =
       IF id \in DOMAIN catalog
       THEN [IdleReq EXCEPT !.kind = "exif", !.pc = "write", !.id = nextReq,
                            !.target = id, !.src = catalog[id], !.tag = tag,
                            !.ran = {"find"}]
       ELSE Respond([IdleReq EXCEPT !.kind = "exif", !.ran = {"find"}, !.failed = "find"],
                    SendError(404, "NOT_FOUND", 0))]
  /\ nextReq' = nextReq + 1
  /\ UNCHANGED <<catalog, fs, now, nextId>>
  /\ Rest

\* writeExifDataToPath(existingImage.path, updates): the file is rewritten in
\* place; it throws when the file is gone
ExifWrite(s) ==
  /\ reqs[s].kind = "exif" /\ reqs[s].pc = "write"
  /\ LET path == reqs[s].src.path IN
       IF Exists(fs, path)
       THEN /\ fs' = WriteFile(fs, path, ImageFile(WriteExif(fs[path].bytes, reqs[s].tag)))
            /\ reqs' = [reqs EXCEPT ![s] =
                 [@ EXCEPT !.pc = "read", !.ran = @ \cup {"write"}]]
       ELSE /\ fs' = fs
            /\ reqs' = [reqs EXCEPT ![s] =
                 Respond([@ EXCEPT !.ran = @ \cup {"write"}, !.failed = "write"],
                         ErrorHandler(FALSE))]
  /\ UNCHANGED <<catalog, now, nextReq, nextId>>
  /\ Rest

\* Promise.all([getExifDataFromPath, calculateFileHash, fs.stat]) on the file
ExifRead(s) ==
  /\ reqs[s].kind = "exif" /\ reqs[s].pc = "read"
  /\ LET path == reqs[s].src.path IN
       reqs' = [reqs EXCEPT ![s] =
         IF Exists(fs, path)
         THEN [@ EXCEPT !.pc = "update", !.ran = @ \cup {"read"},
                        !.bytes = fs[path].bytes, !.hash = FileHash(fs[path].bytes)]
         ELSE Respond([@ EXCEPT !.ran = @ \cup {"read"}, !.failed = "read"],
                      ErrorHandler(FALSE))]
  /\ UNCHANGED <<catalog, fs, now, nextReq, nextId>>
  /\ Rest

\* prisma.image.update({ where: { id }, data: { metadata, filehash, size } });
\* it throws a PrismaClientKnownRequestError when the row is gone
ExifUpdate(s) ==
  /\ reqs[s].kind = "exif" /\ reqs[s].pc = "update"
  /\ LET id == reqs[s].target IN
       IF id \in DOMAIN catalog
       THEN /\ catalog' = [catalog EXCEPT ![id].filehash = reqs[s].hash,
                                          ![id].size = FileSize(reqs[s].bytes)]
            /\ reqs' = [reqs EXCEPT ![s] =
                 Respond([@ EXCEPT !.ran = @ \cup {"update"}], SendSuccess(200, id))]
       ELSE /\ catalog' = catalog
            /\ reqs' = [reqs EXCEPT ![s] =
                 Respond([@ EXCEPT !.ran = @ \cup {"update"}, !.failed = "update"],
                         ErrorHandler(TRUE))]
  /\ UNCHANGED <<fs, now, nextReq, nextId>>
  /\ Rest


\* ---- DELETE /api/images (part_001 555-588): files and rows removed ----
\* prisma.image.deleteMany({ where: { id: { in: ids } } })
DeleteRows(c, id) == [i \in DOMAIN c \ {id} |-> c[i]]

\* findMany: nothing found is answered 200 with count 0
DeleteFind(s, id) ==
  /\ variant = "exif"
  /\ s = NextSlot
  /\ nextReq <= MaxRequests
  /\ id \in 1..nextId
  /\ reqs' = [reqs EXCEPT ![s] =
       IF id \in DOMAIN catalog
       THEN [IdleReq EXCEPT !.kind = "delete", !.pc = "unlink", !.id = nextReq,
                            !.target = id, !.src = catalog[id], !.ran = {"find"}]
       ELSE Respond([IdleReq EXCEPT !.kind = "delete", !.ran = {"find"}],
                    SendSuccess(200, 0))]
  /\ nextReq' = nextReq + 1
  /\ UNCHANGED <<catalog, fs, now, nextId>>
  /\ Rest

\* deleteFileIfExists(image.path), deleteFileIfExists(image.thumbnail_path)
DeleteUnlink(s) ==
  /\ reqs[s].kind = "delete" /\ reqs[s].pc = "unlink"
  /\ fs' = DeleteFileIfExists(DeleteFileIfExists(fs, reqs[s].src.path),
                              reqs[s].src.thumbnail_path)
  /\ reqs' = [reqs EXCEPT ![s] = [@ EXCEPT !.pc = "rows", !.ran = @ \cup {"unlink"}]]
  /\ UNCHANGED <<catalog, now, nextReq, nextId>>
  /\ Rest

\* deleteMany, then 200 with the count
DeleteMany(s) ==
  /\ reqs[s].kind = "delete" /\ reqs[s].pc = "rows"
  /\ catalog' = DeleteRows(catalog, reqs[s].target)
  /\ reqs' = [reqs EXCEPT ![s] =
       Respond([@ EXCEPT !.ran = @ \cup {"deleteMany"}],
               SendSuccess(200, reqs[s].target))]
  /\ UNCHANGED <<fs, now, nextReq, nextId>>
  /\ Rest

\* ---- DELETE /api/images/:id (images.routes.ts 501-532): row marked ----
\* findUnique: 404 without a row, 400 ALREADY_DELETED with deleted_at set
SoftDeleteFind(s, id) ==
  /\ variant = "soft"
  /\ s = NextSlot
  /\ nextReq <= MaxRequests
  /\ id \in 1..nextId
  /\ reqs' = [reqs EXCEPT ![s] =
       IF id \notin DOMAIN catalog
       THEN Respond([IdleReq EXCEPT !.kind = "delete", !.ran = {"find"}, !.failed = "find"],
                    SendError(404, "NOT_FOUND", 0))
       ELSE IF catalog[id].deleted
       THEN Respond([IdleReq EXCEPT !.kind = "delete", !.ran = {"find"}, !.failed = "find"],
                    SendError(400, "ALREADY_DELETED", id))
       ELSE [IdleReq EXCEPT !.kind = "delete", !.pc = "mark", !.id = nextReq,
                            !.target = id, !.ran = {"find"}]]
  /\ nextReq' = nextReq + 1
  /\ UNCHANGED <<catalog, fs, now, nextId>>
  /\ Rest

\* prisma.image.update({ data: { deleted_at: new Date() } }), then 200
SoftDeleteMark(s) ==
  /\ reqs[s].kind = "delete" /\ reqs[s].pc = "mark"
  /\ catalog' = [catalog EXCEPT ![reqs[s].target].deleted = TRUE]
  /\ reqs' = [reqs EXCEPT ![s] =
       Respond([@ EXCEPT !.ran = @ \cup {"update"}], SendSuccess(200, reqs[s].target))]
  /\ UNCHANGED <<fs, now, nextReq, nextId>>
  /\ Rest


ServerNext ==
  \/ \E s \in Slots, b \in UploadBytes, n \in UploadNames, f \in Folders :
       UploadArrive(s, b, n, f)
  \/ \E s \in Slots : UploadInvalid(s)
  \/ \E s \in Slots : UploadValidated(s)
  \/ \E s \in Slots, e \in 1..(MaxRequests + 1) : UploadDuplicate(s, e)
  \/ \E s \in Slots, t \in 0..MaxClock : UploadAdmitted(s, t)
  \/ \E s \in Slots : UploadThumbOk(s)
  \/ \E s \in Slots, leftover \in BOOLEAN : UploadThumbFail(s, leftover)
  \/ \E s \in Slots : UploadMoveOk(s)
  \/ \E s \in Slots : UploadMoveFail(s)
  \/ \E s \in Slots : UploadRollbackThumb(s)
  \/ \E s \in Slots : UploadRollbackStaged(s)
  \/ \E s \in Slots : UploadCreateOk(s)
  \/ \E s \in Slots : UploadCreateFail(s)
  \/ \E s \in Slots, id \in 1..(MaxRequests + 1), r \in Rects, t \in 0..MaxClock :
       CropFind(s, id, r, t)
  \/ \E s \in Slots : CropExtract(s)
  \/ \E s \in Slots, t \in 0..MaxClock : CropHash(s, t)
  \/ \E s \in Slots : CropMove(s)
  \/ \E s \in Slots : CropThumb(s)
  \/ \E s \in Slots : CropCreate(s)
  \/ \E s \in Slots : CropCatch(s)
  \/ \E s \in Slots, id \in 1..(MaxRequests + 1), tag \in EditTags : ExifFind(s, id, tag)
  \/ \E s \in Slots : ExifWrite(s)
  \/ \E s \in Slots : ExifRead(s)
  \/ \E s \in Slots : ExifUpdate(s)
  \/ \E s \in Slots, id \in 1..(MaxRequests + 1) : DeleteFind(s, id)
  \/ \E s \in Slots : DeleteUnlink(s)
  \/ \E s \in Slots : DeleteMany(s)
  \/ \E s \in Slots, id \in 1..(MaxRequests + 1) : SoftDeleteFind(s, id)
  \/ \E s \in Slots : SoftDeleteMark(s)

\* ---- uploads, crops and EXIF edits with differing arguments ----
\* two rectangles inside the image, and the one outside it
WideRects == {BadRect, 1, 2}
\* two values for the tag an EXIF edit writes
WideTags == {1, 2}

\* the routes of part_001 that add or rewrite image files, without the delete
\* routes and with no failure but those one request causes another: uploads,
\* crops and EXIF edits
EditsNext ==
  \/ \E s \in Slots, b \in UploadBytes, n \in UploadNames, f \in Folders :
       UploadArrive(s, b, n, f)
  \/ \E s \in Slots : UploadInvalid(s)
  \/ \E s \in Slots : UploadValidated(s)
  \/ \E s \in Slots, e \in 1..(MaxRequests + 1) : UploadDuplicate(s, e)
  \/ \E s \in Slots, t \in 0..MaxClock : UploadAdmitted(s, t)
  \/ \E s \in Slots : UploadThumbOk(s)
  \/ \E s \in Slots : UploadMoveOk(s)
  \/ \E s \in Slots : UploadCreateOk(s)
  \/ \E s \in Slots, id \in 1..(MaxRequests + 1), r \in WideRects, t \in 0..MaxClock :
       CropFind(s, id, r, t)
  \/ \E s \in Slots : CropExtract(s)
  \/ \E s \in Slots, t \in 0..MaxClock : CropHash(s, t)
  \/ \E s \in Slots : CropMove(s)
  \/ \E s \in Slots : CropThumb(s)
  \/ \E s \in Slots : CropCreate(s)
  \/ \E s \in Slots : CropCatch(s)
  \/ \E s \in Slots, id \in 1..(MaxRequests + 1), tag \in WideTags : ExifFind(s, id, tag)
  \/ \E s \in Slots : ExifWrite(s)
  \/ \E s \in Slots : ExifRead(s)
  \/ \E s \in Slots : ExifUpdate(s)

\* ---- crops on their own, with every way a step can fail ----
CropsNext ==
  \/ \E s \in Slots, id \in 1..(MaxRequests + 1), r \in Rects, t \in 0..MaxClock :
       CropFind(s, id, r, t)
  \/ \E s \in Slots : CropExtract(s)
  \/ \E s \in Slots, t \in 0..MaxClock : CropHash(s, t)
  \/ \E s \in Slots : CropMove(s)
  \/ \E s \in Slots : CropThumb(s)
  \/ \E s \in Slots, leftover \in BOOLEAN : CropThumbFail(s, leftover)
  \/ \E s \in Slots : CropCreate(s)
  \/ \E s \in Slots : CropCreateFail(s)
  \/ \E s \in Slots : CropCatch(s)

\* ------------------------------------- handleBatchUpload with the server ---
\* The batch upload of a folder posting to the upload route, and the same
\* batch run a second time. The files differ in content, so the millisecond
\* in their stored names plays no part: the clock is left where it is.

\* the bytes of the i-th file of the folder: pictures that differ from each
\* other and from the stored one
BytesOfFile(i) == [img |-> i + 1, crop |-> <<>>, exif |-> 0]
\* fileInfo.name of the i-th file
NameOfFile(i) ==
  [pre |-> 0, base |-> IF i = 1 THEN "b" ELSE IF i = 2 THEN "c" ELSE "d", ext |-> ".jpg"]

\* a client that takes every status below 500 for a success
OkBelow500(status) == status < 500

\* response.ok
ResponseOk(status) == status >= 200 /\ status <= 299

\* `await fetch(.../api/images, { method: "POST", body: formData })` is sent and
\* multer stages the file for a handler
PostArrive(w) ==
  /\ bphase = "upload"
  /\ up[w].phase = "io"
  /\ \E s \in Slots :
       /\ reqs[s].pc = "idle"
       /\ \A t \in Slots : t < s => reqs[t].pc # "idle"
       /\ StageUpload(s, BytesOfFile(up[w].file), NameOfFile(up[w].file), "default")
       /\ up' = [up EXCEPT ![w].phase = "sent", ![w].req = s]
  /\ UNCHANGED <<variant, thrown>>
  /\ UNCHANGED <<bphase, entries, allFiles, successCount, failCount, totalSize,
                 processed, posted, batchLog>>
  /\ UNCHANGED <<poolVars, exportVars>>

\* the response of the handler arrives and is ok (upload.ts 126-128, 154-162)
PostOk(w) ==
  /\ bphase = "upload"
  /\ up[w].phase = "sent"
  /\ reqs[up[w].req].pc = "done"
  /\ ResponseOk(reqs[up[w].req].resp.status)
  /\ reqs' = [reqs EXCEPT ![up[w].req] = IdleReq]
  /\ successCount' = successCount + 1
  /\ totalSize' = totalSize + allFiles[up[w].file].size
  /\ posted' = [posted EXCEPT ![up[w].file] = "ok"]
  /\ batchLog' = LogAfter(w, FALSE)
  /\ FinallyOfTask(w)
  /\ UNCHANGED failCount
  /\ UNCHANGED <<variant, catalog, fs, now, nextReq, nextId, thrown>>

\* the response arrives and is not ok: failCount++ and `await response.json()`
\* (upload.ts 129-133)
PostRefused(w) ==
  /\ bphase = "upload"
  /\ up[w].phase = "sent"
  /\ reqs[up[w].req].pc = "done"
  /\ ~ResponseOk(reqs[up[w].req].resp.status)
  /\ reqs' = [reqs EXCEPT ![up[w].req] = IdleReq]
  /\ failCount' = failCount + 1
  /\ posted' = [posted EXCEPT ![up[w].file] =
       IF reqs[up[w].req].resp.code = "DUPLICATE_IMAGE" THEN "duplicate" ELSE "notok"]
  /\ up' = [up EXCEPT ![w].phase = "json", ![w].req = 0]
  /\ UNCHANGED <<bphase, entries, allFiles, successCount, totalSize, processed, batchLog>>
  /\ UNCHANGED <<poolVars, exportVars>>
  /\ UNCHANGED <<variant, catalog, fs, now, nextReq, nextId, thrown>>

\* handleBatchUpload is invoked again with the same config over the same
\* folder: the counters start at zero and the same files are found
BatchRerun ==
  /\ bphase = "done"
  /\ Len(batchLog.summary) = 1
  /\ bphase' = "discover"
  /\ successCount' = 0
  /\ failCount' = 0
  /\ totalSize' = 0
  /\ processed' = 0
  /\ posted' = <<>>
  /\ batchLog' = [NoLog EXCEPT !.summary = batchLog.summary]
  /\ started' = FALSE
  /\ queue' = <<>>
  /\ workers' = <<>>
  /\ poolState' = "pending"
  /\ taskCalls' = [i \in DOMAIN allFiles |-> 0]
  /\ UNCHANGED <<items, limit, entries, allFiles, up>>
  /\ UNCHANGED <<exportVars, serverVars>>

\* the rows the catalog starts with
ServerInitRows == InsertRow(<<>>, SeedRow)

RerunInit == BatchInit /\ ExportAtRest /\ ServerInit

RerunNext ==
  \/ DrainNext
  \/ \E w \in 1..CONCURRENCY_LIMIT : PostArrive(w)
  \/ \E w \in 1..CONCURRENCY_LIMIT : PostOk(w)
  \/ \E w \in 1..CONCURRENCY_LIMIT : PostRefused(w)
  \/ \E w \in 1..CONCURRENCY_LIMIT : BatchErrorLogged(w)
  \/ BatchRerun
  \/ \E s \in Slots : UploadValidated(s)
  \/ \E s \in Slots, e \in 1..(MaxFound + 1) : UploadDuplicate(s, e)
  \/ \E s \in Slots : UploadAdmitted(s, now)
  \/ \E s \in Slots : UploadThumbOk(s)
  \/ \E s \in Slots : UploadMoveOk(s)
  \/ \E s \in Slots : UploadCreateOk(s)
  \/ \E s \in Slots : UploadCreateFail(s)
  \/ FewDiscover

\* ------------------------------------------------------ specifications ---
PoolOnlyInit == PoolInit /\ ExportAtRest /\ ServerAtRest /\ BatchAtRest
ExportOnlyInit == ExportInit /\ ServerAtRest /\ BatchAtRest
ServerOnlyInit == ServerInit /\ PoolAtRest /\ ExportAtRest /\ BatchAtRest
BatchOnlyInit == BatchInit /\ ExportAtRest /\ ServerAtRest
ErrorsOnlyInit == ErrorsInit /\ PoolAtRest /\ ExportAtRest /\ BatchAtRest

SpecPool == PoolOnlyInit /\ [][PoolNext]_vars
SpecExport == ExportOnlyInit /\ [][ExportNext]_vars
SpecServer == ServerOnlyInit /\ [][ServerNext]_vars
SpecBatch == BatchOnlyInit /\ [][BatchNext]_vars
SpecDiscovery == BatchOnlyInit /\ [][DiscoveryNext]_vars
SpecErrors == ErrorsOnlyInit /\ [][ErrorsNext]_vars
SpecFilter == BatchOnlyInit /\ [][FilterNext]_vars
SpecEdits == ServerOnlyInit /\ [][EditsNext]_vars
SpecCrops == ServerOnlyInit /\ [][CropsNext]_vars

SpecRerun == RerunInit /\ [][RerunNext]_vars
\* The client about to run one batch operation: an upload, or an export of
\* images of one name into an empty folder. Fairness: the event loop runs
\* a continuation that is ready, and every I/O call of an item settles.
ExportSameNameInit ==
  /\ ExportInit
  /\ disk = <<>>
  /\ \A i \in DOMAIN images : images[i] = images[1]
ClientInit == BatchOnlyInit \/ (ExportSameNameInit /\ ServerAtRest /\ BatchAtRest)
SpecClient == ClientInit /\ [][ClientNext]_vars /\ WF_vars(ClientNext)

\* one batch upload in which one request may hang, under weak fairness: every
\* other promise settles and every ready continuation runs
SpecHang == BatchOnlyInit /\ [][HangNext]_vars /\ WF_vars(HangNext)

Init == PoolOnlyInit \/ ExportOnlyInit \/ ServerOnlyInit \/ BatchOnlyInit \/ ErrorsOnlyInit \/ RerunInit
Next == PoolNext \/ ExportNext \/ ServerNext \/ BatchNext \/ DiscoveryNext \/ ErrorsNext \/ RerunNext \/ HangNext
          \/ FilterNext \/ EditsNext \/ CropsNext
Spec == Init /\ [][Next]_vars

\* =================================================== claims: the pool ====

\* every worker has returned or died: nothing is in flight or about to run
PoolQuiescent ==
  started /\ \A w \in DOMAIN workers : workers[w].pc \in {"done", "failed"}

\* C1: at every moment the number of tasks entered and not yet settled is at
\* most limit, and at most min(limit, items.length); with the orchestrators'
\* limit of 5 never more than 5 tasks are in flight.
C1_PoolBound ==
  /\ Active <= limit
  /\ Active <= Min(limit, Len(items))
  /\ (limit = CONCURRENCY_LIMIT => Active <= 5)

\* C1 witness: with limit 5 and more than 5 items, 5 tasks are in flight and
\* one of them is an item past the first 5, claimed by a worker that came back.
C1_Witness ==
  /\ limit = CONCURRENCY_LIMIT
  /\ Len(items) > limit
  /\ Active = limit
  /\ \E w \in DOMAIN workers : workers[w].pc = "await" /\ workers[w].item > limit

\* C2 (as claimed): no item is passed to task twice, and once the pool has
\* resolved every item of the input list has been passed to task exactly once.
C2_EveryItemExactlyOnce ==
  /\ \A i \in DOMAIN items : taskCalls[i] <= 1
  /\ (poolState = "resolved" => \A i \in DOMAIN items : taskCalls[i] = 1)

\* C3 (as claimed): a throwing task neither rejects the pool nor stops its
\* worker, and once nothing is running every item has been passed to task.
C3_PoolFaultIsolation ==
  /\ poolState # "rejected"
  /\ \A w \in DOMAIN workers : workers[w].pc # "failed"
  /\ (PoolQuiescent =>
        \A i \in DOMAIN items : Truthy(items[i]) => taskCalls[i] = 1)

\* C4 (as claimed): the returned promise is settled only when the queue is
\* empty and no started task is still in flight.
C4_SettlesAfterDrain ==
  poolState # "pending" => queue = <<>> /\ Active = 0

\* ================================================= claims: the export ====

\* downloadImage reported image i as downloaded
Downloaded(i) ==
  \E k \in DOMAIN exportLog : exportLog[k].type = "info" /\ exportLog[k].img = i

\* the terminal summary event has been sent
ExportSummarySent ==
  \E k \in DOMAIN exportLog : exportLog[k].type = "success"

\* C5 (as claimed): when a finished batch downloaded two images whose
\* sanitized display names are identical, the destination directory holds two
\* distinct files, one with each image's content.
C5_ExportCollisionSafe ==
  ExportSummarySent =>
    \A i, j \in DOMAIN images :
      (i < j /\ NameWithoutExt(images[i]) = NameWithoutExt(images[j])
             /\ Downloaded(i) /\ Downloaded(j)) =>
        \E f, g \in DOMAIN disk :
          f # g /\ disk[f].data = i /\ disk[g].data = j


\* ================================================= claims: the server ====

\* C6: after any sequence and any interleaving of upload, crop, EXIF-edit and
\* delete requests, no two non-deleted catalog records have the same content
\* hash.
C6_UniqueContentHash ==
  \A i, j \in DOMAIN catalog :
    (i # j /\ ~catalog[i].deleted /\ ~catalog[j].deleted)
      => catalog[i].filehash # catalog[j].filehash

\* C7: when the duplicate check of an upload runs and a catalog record has the
\* content hash of the staged file, the request ends there with 409
\* DUPLICATE_IMAGE carrying the id of a record with that hash; the staged file
\* is gone, and no catalog record, final file or thumbnail has been created.
C7_DuplicateRejected ==
  [][\A s \in Slots :
      (/\ reqs[s].kind = "upload" /\ reqs[s].pc = "find"
       /\ \E i \in DOMAIN catalog :
            catalog[i].filehash = FileHash(fs[reqs[s].temp].bytes)
       /\ reqs'[s] # reqs[s])
      => /\ reqs'[s].pc = "done"
         /\ reqs'[s].resp.status = 409
         /\ reqs'[s].resp.code = "DUPLICATE_IMAGE"
         /\ reqs'[s].resp.ref \in DOMAIN catalog
         /\ catalog[reqs'[s].resp.ref].filehash = FileHash(fs[reqs[s].temp].bytes)
         /\ reqs[s].temp \notin DOMAIN fs'
         /\ DOMAIN fs' = DOMAIN fs \ {reqs[s].temp}
         /\ catalog' = catalog
         /\ reqs'[s].ran \cap {"thumb", "move", "create"} = {}]_vars

\* C7 witness: an upload has been answered 409 DUPLICATE_IMAGE with the id of
\* a record of the catalog.
C7_Witness ==
  \E s \in Slots :
    /\ reqs[s].kind = "upload" /\ reqs[s].pc = "done"
    /\ reqs[s].failed = "duplicate"
    /\ reqs[s].resp.status = 409
    /\ reqs[s].resp.ref \in DOMAIN catalog

\* C8: when the staged file of an upload cannot be read as an image, the
\* request ends at the validation step with 400 INVALID_IMAGE; the staged file
\* is gone, no catalog record was created, and no hash, thumbnail or relocation
\* step ran (nothing else in the storage changed).
C8_InvalidRejected ==
  [][\A s \in Slots :
      (/\ reqs[s].kind = "upload" /\ reqs[s].pc = "validate"
       /\ ~Decodable(fs[reqs[s].temp].bytes)
       /\ reqs'[s] # reqs[s])
      => /\ reqs'[s].pc = "done"
         /\ reqs'[s].resp.status = 400
         /\ reqs'[s].resp.code = "INVALID_IMAGE"
         /\ reqs[s].temp \notin DOMAIN fs'
         /\ DOMAIN fs' = DOMAIN fs \ {reqs[s].temp}
         /\ catalog' = catalog
         /\ reqs'[s].ran = {"validate"}]_vars

\* C8 witness: an upload of an undecodable file has been answered 400.
C8_Witness ==
  \E s \in Slots :
    /\ reqs[s].kind = "upload" /\ reqs[s].pc = "done"
    /\ reqs[s].failed = "validate"
    /\ reqs[s].resp.code = "INVALID_IMAGE"

\* C9: when thumbnail generation fails during an upload, then as the request
\* returns no file exists at the final location, no file exists at the
\* thumbnail path, the staged file is deleted and no catalog record was created.
C9_ThumbnailFailureLeavesNothing ==
  [][\A s \in Slots :
      (/\ reqs[s].kind = "upload" /\ reqs[s].pc = "thumb"
       /\ reqs'[s].pc = "done")
      => /\ reqs[s].final \notin DOMAIN fs'
         /\ reqs[s].thumb \notin DOMAIN fs'
         /\ reqs[s].temp \notin DOMAIN fs'
         /\ catalog' = catalog]_vars

\* C10: when relocating the staged file fails during an upload, nothing has
\* been moved and the rollback runs: its first step leaves no file at the path
\* of the thumbnail just generated, its second leaves no staged file and
\* answers 500 UPLOAD_FAILED, and no catalog record was created.
C10_RelocationRollback ==
  [][\A s \in Slots :
      /\ (/\ reqs[s].kind = "upload" /\ reqs[s].pc = "move"
          /\ reqs'[s].pc \notin {"move", "create"})
         => /\ reqs'[s].pc = "rollback"
            /\ fs' = fs /\ catalog' = catalog
      /\ (/\ reqs[s].kind = "upload" /\ reqs[s].pc = "rollback"
          /\ reqs'[s] # reqs[s])
         => /\ reqs'[s].pc = "rollback2"
            /\ reqs[s].thumb \notin DOMAIN fs'
            /\ catalog' = catalog
      /\ (/\ reqs[s].kind = "upload" /\ reqs[s].pc = "rollback2"
          /\ reqs'[s] # reqs[s])
         => /\ reqs'[s].pc = "done"
            /\ reqs'[s].resp.status = 500
            /\ reqs'[s].resp.code = "UPLOAD_FAILED"
            /\ reqs[s].temp \notin DOMAIN fs'
            /\ DOMAIN fs' = DOMAIN fs \ {reqs[s].temp}
            /\ catalog' = catalog
            /\ "create" \notin reqs'[s].ran]_vars

\* C10 witness: an upload whose move failed has been answered 500
\* UPLOAD_FAILED after its rollback.
C10_Witness ==
  \E s \in Slots :
    /\ reqs[s].kind = "upload" /\ reqs[s].pc = "done"
    /\ reqs[s].failed = "move"
    /\ reqs[s].ran = {"validate", "hash", "find", "thumb", "move"}
    /\ reqs[s].resp.code = "UPLOAD_FAILED"

\* ------------------------------------------------ claims: batch upload ---
\* C17: the "Processed k/n" events sent so far are exactly the k up to the
\* number of finished files that are a multiple of 5 or equal to n, each once
\* and in increasing order; so k = n is sent when the last file finishes.
C17_ProgressEvents ==
  bphase \in {"upload", "done"} =>
    LET n == Len(allFiles)
        due == {k \in 1..processed : k % 5 = 0 \/ k = n}
        sent == batchLog.progress
    IN /\ Len(sent) = Cardinality(due)
       /\ \A j \in DOMAIN sent : sent[j] \in due
       /\ \A j \in DOMAIN sent : \A h \in DOMAIN sent : j < h => sent[j] < sent[h]

\* C17 witness: a batch of 6 files has finished with the events for 5 and 6.
C17_Witness ==
  /\ bphase = "done"
  /\ Len(allFiles) = 6
  /\ batchLog.progress = <<5, 6>>

\* the sizes of the files 1..k whose POST returned an ok status, summed
RECURSIVE SizeOfOk(_)
SizeOfOk(k) ==
  IF k = 0 THEN 0
  ELSE SizeOfOk(k - 1) + (IF posted[k] = "ok" THEN allFiles[k].size ELSE 0)

\* C20: at every moment of a batch upload, whatever the order in which the
\* concurrent tasks resume, successCount is the number of files whose POST
\* returned ok, failCount the number of files that failed, totalSize the sum of
\* the sizes of the former, and no file is handed to uploadFile twice; the
\* summary carries these numbers and success + failed is the number of files.
C20_CountersExact ==
  bphase \in {"upload", "done"} =>
    LET ok == {i \in DOMAIN posted : posted[i] = "ok"}
        bad == {i \in DOMAIN posted : posted[i] \notin {"", "ok"}}
    IN /\ successCount = Cardinality(ok)
       /\ failCount = Cardinality(bad)
       /\ totalSize = SizeOfOk(Len(posted))
       /\ \A i \in DOMAIN taskCalls : taskCalls[i] <= 1
       /\ bphase = "done" =>
            /\ Len(batchLog.summary) = 1
            /\ batchLog.summary[1].success = Cardinality(ok)
            /\ batchLog.summary[1].failed = Len(allFiles) - Cardinality(ok)
            /\ batchLog.summary[1].size = SizeOfOk(Len(posted))

\* C20 witness: a batch of 6 files, more than the 5 tasks that run at once,
\* has finished with 3 files uploaded and 3 refused.
C20_Witness ==
  /\ bphase = "done"
  /\ Len(allFiles) = 6
  /\ batchLog.summary[1].success = 3
  /\ batchLog.summary[1].failed = 3
  /\ batchLog.summary[1].size = 4

\* the extension of f, in lower case, is in the extension list of entry e
\* (the default list when e has none)
InOwnList(e, f) ==
  LET own == IF e.types = NoTypes THEN <<"jpg", "png", "tif">> ELSE e.types
  IN \E k \in DOMAIN own : own[k] = (IF f.ext = "JPG" THEN "jpg" ELSE f.ext)

\* C13: a turn of the discovery loop over an entry whose folder cannot be
\* accessed sends one skip event and finds nothing; over a folder that is
\* listed it sends no event and appends exactly the files whose extension is in
\* that entry's own list, in order; nothing else changes what was found, and a
\* finished batch has handed every file found to the upload task once.
C13_Discovery ==
  /\ [][/\ entries' # entries =>
            \A e \in ConfigEntries :
             DiscoverStep(e) =>
               IF ~e.access
               THEN /\ batchLog'.skips = batchLog.skips + 1
                    /\ batchLog'.unread = batchLog.unread
                    /\ allFiles' = allFiles
               ELSE IF e.readable
               THEN /\ batchLog' = batchLog
                    /\ allFiles' = allFiles \o SelectSeq(e.files, LAMBDA f : InOwnList(e, f))
               ELSE /\ batchLog'.skips = batchLog.skips
                    /\ batchLog'.unread = batchLog.unread + 1
                    /\ allFiles' = allFiles
         /\ (entries' = entries => allFiles' = allFiles)]_vars
  /\ [](bphase = "done" =>
          \A i \in DOMAIN allFiles : taskCalls[i] = 1 /\ posted[i] # "")

\* C13 witness: a config of two entries, one of them skipped, has been
\* uploaded: the one file found went to the server.
C13_Witness ==
  /\ bphase = "done"
  /\ entries = 2
  /\ batchLog.skips = 1
  /\ Len(allFiles) = 1
  /\ posted[1] = "ok"

\* C11: a batch upload that found a file, and an export of at least one
\* image, eventually sends its summary, also when every item fails; no batch
\* sends two; once the summary is sent nothing more is logged; and when the
\* upload summary is sent every file has finished, each failed file has its
\* error event and "Processed n/n" is out, as for the export every image has
\* its "Downloaded" or "Failed" event.
C11_TerminalSummary ==
  /\ (bphase = "upload") ~> (Len(batchLog.summary) = 1)
  /\ (images # <<>>) ~> ExportSummarySent
  /\ [](/\ Len(batchLog.summary) <= 1
        /\ Cardinality({k \in DOMAIN exportLog : exportLog[k].type = "success"}) <= 1)
  /\ [][/\ batchLog.summary # <<>> => batchLog' = batchLog
        /\ ExportSummarySent => exportLog' = exportLog]_vars
  /\ [](batchLog.summary # <<>> =>
          /\ processed = Len(allFiles)
          /\ batchLog.progress # <<>>
          /\ batchLog.progress[Len(batchLog.progress)] = Len(allFiles)
          /\ \A i \in DOMAIN allFiles :
               /\ posted[i] # ""
               /\ batchLog.errors[i] = (IF posted[i] = "ok" THEN 0 ELSE 1))
  /\ [](ExportSummarySent =>
          /\ exportLog[Len(exportLog)].type = "success"
          /\ \A i \in DOMAIN images :
               Cardinality({k \in DOMAIN exportLog : exportLog[k].img = i}) = 1)

\* C11 witness: a batch upload of two files has sent its summary with both
\* failed, one refused by the server and one whose request got no response.
C11_Witness ==
  /\ Len(allFiles) = 2
  /\ Len(batchLog.summary) = 1
  /\ batchLog.summary[1].success = 0
  /\ batchLog.summary[1].failed = 2
  /\ posted = <<"notok", "threw">>

\* ------------------------------------------------------ claims: export ---
\* C18 (as claimed): when a download is reported failed, whether by a status
\* other than 200 or by an error in the middle of the response stream, no file
\* is left at the path that download had chosen. Stated for batches whose
\* images have distinct sanitized names, so that no sibling writes that path.
C18_FailedExportLeavesNoFile ==
  [][\A w \in 1..CONCURRENCY_LIMIT :
       (/\ Cardinality(PlainNames(images)) = Len(images)
        /\ dl[w].phase # "none"
        /\ dl'[w].phase = "none"
        /\ Len(exportLog') = Len(exportLog) + 1
        /\ exportLog'[Len(exportLog')] = [type |-> "error", img |-> dl[w].img, count |-> 0])
       => dl[w].path \notin DOMAIN disk']_vars

\* ---------------------------------------------- claims: error responses ---
\* C19 (as claimed): two unexpected exceptions (plain Errors, not ApiError,
\* not a database or validation error) caught at the same place and differing
\* only in their message are answered with the same body, and its status is
\* 500.
C19_GenericErrorBody ==
  \A i \in DOMAIN thrown : \A j \in DOMAIN thrown :
    (/\ thrown[i].body # NoBody /\ thrown[j].body # NoBody
     /\ thrown[i].exc.name \in {"Error", "TypeError"}
     /\ thrown[i].exc.name = thrown[j].exc.name
     /\ thrown[i].exc.catcher = thrown[j].exc.catcher)
    => /\ thrown[i].body = thrown[j].body
       /\ thrown[i].body.status = 500

C15_UniqueStoredFilename ==
  \A i \in DOMAIN catalog : \A j \in DOMAIN catalog :
    (i # j /\ catalog[i].folder_name = catalog[j].folder_name)
      => catalog[i].filename # catalog[j].filename

\* C16 (as claimed): at the step in which an upload or a crop creates its
\* record, the image file and the thumbnail the record names exist, and the
\* request has by then validated (an upload), hashed, made the thumbnail and
\* moved the file.
C16_RecordImpliesFiles ==
  [][\A s \in Slots :
       (/\ reqs[s].kind \in {"upload", "crop"}
        /\ reqs[s].pc # "done"
        /\ reqs'[s].resp.status = 201)
       => /\ {"hash", "thumb", "move"} \subseteq reqs'[s].ran
          /\ reqs[s].kind = "upload" => "validate" \in reqs'[s].ran
          /\ \E b \in DOMAIN catalog' \ DOMAIN catalog :
               /\ reqs'[s].resp.ref = b
               /\ Exists(fs', catalog'[b].path)
               /\ Exists(fs', catalog'[b].thumbnail_path)]_vars

\* ------------------------------------------ claims: upload with server ---
\* C12: when the first run of a batch of n files of distinct content ended
\* with success = n and failed = 0, it added n records; the second run over the
\* same files adds or changes no record, and it ends with success = 0 and
\* failed = n, every file refused as a duplicate.
C12_RerunAllDuplicates ==
  /\ [](LET n == Len(allFiles) IN
          (/\ Len(batchLog.summary) >= 1
           /\ batchLog.summary[1].success = n
           /\ batchLog.summary[1].failed = 0)
          => /\ bphase = "done" /\ Len(batchLog.summary) = 1
                  => Cardinality(DOMAIN catalog) = Cardinality(DOMAIN ServerInitRows) + n
             /\ Len(batchLog.summary) = 2
                  => /\ batchLog.summary[2].success = 0
                     /\ batchLog.summary[2].failed = n
                     /\ \A i \in DOMAIN allFiles : posted[i] = "duplicate")
  /\ [][(/\ Len(batchLog.summary) >= 1
         /\ batchLog.summary[1].success = Len(allFiles)
         /\ batchLog.summary[1].failed = 0)
        => catalog' = catalog]_vars

\* C12 witness: a batch of 2 files has run twice: 2 uploaded and none failed,
\* then none uploaded and 2 refused as duplicates.
C12_Witness ==
  /\ Len(allFiles) = 2
  /\ Len(batchLog.summary) = 2
  /\ batchLog.summary[1].success = 2 /\ batchLog.summary[1].failed = 0
  /\ batchLog.summary[2].success = 0 /\ batchLog.summary[2].failed = 2
  /\ posted = <<"duplicate", "duplicate">>

\* ------------------------------------------- claims: the export's count ---
\* the "Downloaded k/total" events sent so far, in the order they were sent
DownloadedEvents == SelectSeq(exportLog, LAMBDA e : e.type = "info")

\* C21: the "Downloaded k/total" events carry k = 1, 2, ... in the order they
\* are sent, one per image whose download ended well and none for an image
\* reported failed; completed is their number at every moment, so a failed
\* image never adds to it, and the summary carries that number.
C21_ExportCountExact ==
  /\ completed = Len(DownloadedEvents)
  /\ \A k \in DOMAIN DownloadedEvents : DownloadedEvents[k].count = k
  /\ \A k, h \in DOMAIN DownloadedEvents :
       k # h => DownloadedEvents[k].img # DownloadedEvents[h].img
  /\ \A k, h \in DOMAIN exportLog :
       (exportLog[k].type = "error" /\ exportLog[h].type = "info")
         => exportLog[k].img # exportLog[h].img
  /\ \A k \in DOMAIN exportLog :
       exportLog[k].type = "success" =>
         /\ exportLog[k].count = Len(DownloadedEvents)
         /\ exportLog[k].count = Cardinality({i \in DOMAIN images : Downloaded(i)})

\* C21 witness: an export of two images has sent its summary with a count of 1
\* after one image failed and, later, the other was downloaded as number 1.
C21_Witness ==
  /\ Len(images) = 2
  /\ Len(exportLog) = 3
  /\ exportLog[1].type = "error"
  /\ exportLog[2].type = "info" /\ exportLog[2].count = 1
  /\ exportLog[3].type = "success" /\ exportLog[3].count = 1

\* ------------------------------------------------- claims: a hung task ---
\* the upload task of some worker waits on a request that never settles
SomeTaskHangs == \E w \in 1..CONCURRENCY_LIMIT : up[w].phase = "hung"

\* file i is the one whose task hangs
HungFile(i) == \E w \in 1..CONCURRENCY_LIMIT : up[w].phase = "hung" /\ up[w].file = i

\* C22: once the task of one file hangs, it hangs for ever; every other file
\* of the batch is eventually handed to the task, exactly once, and its task
\* finishes; the pool's promise stays pending and no summary is sent.
C22_HungTaskBlocksOnlyItsSlot ==
  /\ SomeTaskHangs ~>
       (\A i \in DOMAIN allFiles :
          ~HungFile(i) => /\ taskCalls[i] = 1
                          /\ posted[i] # ""
                          /\ \A w \in 1..CONCURRENCY_LIMIT : up[w].file # i)
  /\ SomeTaskHangs ~> (processed = Len(allFiles) - 1 /\ queue = <<>>)
  /\ [][SomeTaskHangs =>
          \A i \in DOMAIN allFiles : HungFile(i) => HungFile(i)']_vars
  /\ [](SomeTaskHangs =>
          /\ poolState = "pending"
          /\ bphase = "upload"
          /\ batchLog.summary = <<>>)

\* C22 witness: in a batch of 6 files the task of the first hangs; the other
\* four workers have finished the remaining five files and returned.
C22_Witness ==
  /\ Len(allFiles) = 6
  /\ HungFile(1)
  /\ processed = 5
  /\ \A i \in 2..6 : posted[i] # ""
  /\ Cardinality({w \in DOMAIN workers : workers[w].pc = "done"}) = 4
  /\ poolState = "pending"

\* ------------------------------------- claims: records and their files ---
\* no request handler is in flight
ServerQuiet == \A s \in Slots : Free(s)

\* C23 (as claimed): when no request is in flight, after any uploads, crops
\* and EXIF edits in any interleaving, every record's file exists and the
\* record's filehash and size are the hash and the size of that file's bytes.
C23_HashMatchesFile ==
  ServerQuiet =>
    \A i \in DOMAIN catalog :
      /\ Exists(fs, catalog[i].path)
      /\ catalog[i].filehash = FileHash(fs[catalog[i].path].bytes)
      /\ catalog[i].size = FileSize(fs[catalog[i].path].bytes)

\* --------------------------------- claims: duplicates of deleted images ---
\* C24 (as claimed): when the duplicate check of an upload runs and every
\* record with the staged file's hash is soft-deleted, the upload is admitted:
\* it goes on to its thumbnail instead of answering DUPLICATE_IMAGE.
C24_DeletedNotDuplicate ==
  [][\A s \in Slots :
       (/\ reqs[s].kind = "upload" /\ reqs[s].pc = "find"
        /\ \A i \in DOMAIN catalog :
             catalog[i].filehash = reqs[s].hash => catalog[i].deleted
        /\ reqs'[s] # reqs[s])
       => /\ reqs'[s].pc = "thumb"
          /\ reqs'[s].resp.code # "DUPLICATE_IMAGE"]_vars

\* ------------------------------------------ claims: the crop's temp file ---
\* the crop handled in slot s has named its temp file and not yet answered
CropInFlight(s) == reqs[s].kind = "crop" /\ reqs[s].pc \notin {"idle", "done"}

\* C25 (as claimed): two crop requests in flight at the same time have
\* different temp file paths.
C25_CropTempPathsDiffer ==
  \A s \in Slots : \A u \in Slots :
    (s # u /\ CropInFlight(s) /\ CropInFlight(u)) => reqs[s].temp # reqs[u].temp

\* ------------------------------------------- claims: a crop that fails ---
\* the steps of the crop handler inside its try block
CropTrySteps == {"extract", "hash", "move", "thumb", "create"}

C27_CreateFailureNoRollback ==
  [][\A s \in Slots :
       (/\ reqs[s].kind = "upload" /\ reqs[s].pc = "create"
        /\ reqs'[s].failed = "create")
       => /\ "move" \in reqs[s].ran
          /\ reqs'[s].pc = "done"
          /\ reqs'[s].resp = SendError(500, "UPLOAD_FAILED", 0)
          /\ catalog' = catalog
          /\ nextId' = nextId
          /\ fs' = fs
          /\ Exists(fs, reqs[s].final) => Exists(fs', reqs[s].final)
          /\ Exists(fs, reqs[s].thumb) => Exists(fs', reqs[s].thumb)
          /\ ~Exists(fs', reqs[s].temp)]_vars

\* C27 witness: an upload has been answered 500 UPLOAD_FAILED after its
\* create failed; its image file and thumbnail are on disk and no record
\* names them.
C27_Witness ==
  \E s \in Slots :
    /\ reqs[s].kind = "upload" /\ reqs[s].pc = "done"
    /\ reqs[s].failed = "create"
    /\ reqs[s].resp.code = "UPLOAD_FAILED"
    /\ \E p \in DOMAIN fs :
         /\ fs[p].kind = "image"
         /\ p.dir = <<"default">>
         /\ Exists(fs, ThumbnailPath("default", p.file))
         /\ \A i \in DOMAIN catalog :
              catalog[i].path # p /\ catalog[i].filehash # FileHash(fs[p].bytes)

\* ------------------------------- claims: the extension filter's case ---
\* the extension of f is in the list `types` when both are read without
\* regard to letter case
InListIgnoringCase(types, f) ==
  \E k \in DOMAIN types : ToLowerCase(types[k]) = ToLowerCase(f.ext)

\* C28 (as claimed): a turn of the discovery loop over a listed folder appends
\* exactly the files whose extension is in the entry's list when letter case
\* is ignored on both sides, in order.
C28_FilterIgnoresCase ==
  [][entries' # entries =>
       \A e \in CasedEntries :
         DiscoverStep(e) =>
           allFiles' = allFiles \o
             SelectSeq(e.files, LAMBDA f : InListIgnoringCase(e.types, f))]_vars

\* ------------------------------------ claims: unsupported file types ---
\* uploadFile has no mime type for the extension of file f
HasNoMimeType(f) == ToLowerCase(f.ext) \notin {"jpg", "jpeg", "png", "tif", "tiff"}

\* C29: a discovered file whose extension has no mime type is never posted:
\* it is handed to uploadFile once, fails there with one error event and is
\* counted once in failCount; the batch goes on, and when it is done every
\* file has been processed and counted, success + failed being their number.
C29_UnsupportedCountedOnce ==
  bphase \in {"upload", "done"} =>
    /\ \A i \in DOMAIN allFiles :
         HasNoMimeType(allFiles[i]) =>
           /\ posted[i] \in {"", "unsent"}
           /\ taskCalls[i] <= 1
           /\ batchLog.errors[i] = (IF posted[i] = "unsent" THEN 1 ELSE 0)
    /\ failCount = Cardinality({i \in DOMAIN posted : posted[i] \notin {"", "ok"}})
    /\ bphase = "done" =>
         /\ poolState = "resolved"
         /\ processed = Len(allFiles)
         /\ \A i \in DOMAIN allFiles :
              /\ taskCalls[i] = 1
              /\ posted[i] # ""
              /\ HasNoMimeType(allFiles[i]) => posted[i] = "unsent"
         /\ batchLog.summary[1].success + batchLog.summary[1].failed = Len(allFiles)
         /\ batchLog.summary[1].failed >=
              Cardinality({i \in DOMAIN allFiles : HasNoMimeType(allFiles[i])})

\* C29 witness: a batch of a .txt and a .png file, both listed by the config,
\* is done: the first was refused without a request, the second uploaded.
C29_Witness ==
  /\ bphase = "done"
  /\ Len(allFiles) = 2
  /\ allFiles[1].ext = "txt" /\ allFiles[2].ext = "png"
  /\ posted = <<"unsent", "ok">>
  /\ batchLog.summary[1].success = 1
  /\ batchLog.summary[1].failed = 1
  /\ batchLog.errors = <<1, 0>>

\* --------------------------------------------- claims: an empty batch ---
\* C30: when the discovery loop ends with no file found, the step that ends it
\* sends the one "No files to upload" event and handleBatchUpload returns:
\* runConcurrent is never called, no upload task starts, and no "Found",
\* error, progress or summary event is sent then or later.
C30_NothingToUpload ==
  /\ [][(bphase = "discover" /\ bphase' # "discover" /\ allFiles = <<>>)
          => /\ bphase' = "empty"
             /\ batchLog'.nothing = batchLog.nothing + 1]_vars
  /\ [](bphase = "empty" =>
          /\ allFiles = <<>>
          /\ batchLog.nothing = 1
          /\ batchLog.found = 0
          /\ batchLog.errors = <<>>
          /\ batchLog.progress = <<>>
          /\ batchLog.summary = <<>>
          /\ ~started
          /\ posted = <<>>
          /\ processed = 0
          /\ \A w \in 1..CONCURRENCY_LIMIT : up[w].phase = "none")
  /\ [][bphase = "empty" => (bphase' = "empty" /\ batchLog' = batchLog)]_vars
  /\ [](bphase # "empty" => batchLog.nothing = 0)

\* C30 witness: a config of two entries, one folder missing and the other
\* unreadable, has ended with the "No files to upload" event.
C30_Witness ==
  /\ bphase = "empty"
  /\ entries = 2
  /\ batchLog.skips = 1
  /\ batchLog.unread = 1
  /\ batchLog.nothing = 1

====
